---- MODULE Spec2Model ----
(***************************************************************************)
(* Local MP2 pair-amplitude solver of Serenity (postHF/MPn/LocalMP2.cpp):  *)
(* calculateEnergyCorrection, optimizeAmplitudes and calculateEnergy as a  *)
(* state machine over a system of two occupied orbitals and pair-local     *)
(* virtual spaces of dimension two.                                        *)
(*                                                                         *)
(* Numbers.  All quantities of the solver are integers.  The exchange      *)
(* integrals are multiples of KUnit, a power of two large enough that      *)
(* every element-wise quotient residual / uncoupledTerm the solver forms   *)
(* within the modelled cycles is exact (uncoupledTerm has the entries 1    *)
(* and 2, and a division by a power of two is exact in binary floating     *)
(* point as well).  DivisionExact states this and is checked.              *)
(*                                                                         *)
(* Matrices are 2x2, written row by row as <<m11, m12, m21, m22>>.         *)
(***************************************************************************)
EXTENDS Integers, Sequences, FiniteSets, TLC

\* ------------------------------------------------------------------------
\* Bounds of the model
\* ------------------------------------------------------------------------
\* Largest number of cycles of the while loop a run of the model executes.
MaxCyc == 2
\* Largest value of omp_get_max_threads().
MaxThreads == 2
\* Largest number of calls of calculateEnergy by the caller after the return.
MaxEnergyCalls == 2
\* Basis functions, and so orbitals and eigenvalues per spin, of the
\* OrbitalController.
NOrb == 3
\* Largest number of calls that set the core orbitals of one controller.
MaxCalls == 2
\* Largest number of calls of getLLTMetric on one RI_J_IntegralController.
MaxMetricCalls == 3
\* Largest number of calls of updateOrbitals(fockMatrix, ...) on one
\* OrbitalController.
MaxUpdates == 2
\* Orbitals of the reference of an LRSCFController.
NReference == 3
\* Largest number of calls of editReference on one LRSCFController.
MaxEdits == 2

\* ------------------------------------------------------------------------
\* Program constants
\* ------------------------------------------------------------------------
\* double largestResidual = 10;
InitialLargestResidual == 10

\* ------------------------------------------------------------------------
\* 2x2 matrices (Eigen::MatrixXd restricted to two rows and two columns)
\* ------------------------------------------------------------------------
Abs(x) == IF x < 0 THEN -x ELSE x

Max2(a, b) == IF a >= b THEN a ELSE b

RECURSIVE Pow2(_)
Pow2(n) == IF n = 0 THEN 1 ELSE 2 * Pow2(n - 1)

ZeroM == <<0, 0, 0, 0>>

MAdd(a, b) == <<a[1] + b[1], a[2] + b[2], a[3] + b[3], a[4] + b[4]>>

MSub(a, b) == <<a[1] - b[1], a[2] - b[2], a[3] - b[3], a[4] - b[4]>>

MScale(c, a) == <<c * a[1], c * a[2], c * a[3], c * a[4]>>

\* a.transpose()
MT(a) == <<a[1], a[3], a[2], a[4]>>

\* a * b, the matrix product
MMul(a, b) ==
  <<a[1] * b[1] + a[2] * b[3], a[1] * b[2] + a[2] * b[4],
    a[3] * b[1] + a[4] * b[3], a[3] * b[2] + a[4] * b[4]>>

\* a.array() * b.array(), the element-wise product
MHad(a, b) == <<a[1] * b[1], a[2] * b[2], a[3] * b[3], a[4] * b[4]>>

\* The quotient of two numbers, rounded toward zero when it is not exact.
Quot(a, b) ==
  IF (a >= 0) = (b > 0) THEN Abs(a) \div Abs(b) ELSE -(Abs(a) \div Abs(b))

\* a.array() / b.array(), the element-wise quotient
MQuot(a, b) ==
  <<Quot(a[1], b[1]), Quot(a[2], b[2]), Quot(a[3], b[3]), Quot(a[4], b[4])>>

\* a.array().abs().maxCoeff()
MaxAbsCoeff(a) == Max2(Max2(Abs(a[1]), Abs(a[2])), Max2(Abs(a[3]), Abs(a[4])))

\* a.sum()
MSum(a) == a[1] + a[2] + a[3] + a[4]

\* ------------------------------------------------------------------------
\* Orbitals, pairs and coupling sets
\* ------------------------------------------------------------------------
\* The occupied orbitals of the active system.
Occ == {0, 1}

\* The orbital pairs of the system: a pair <<i, j>> is stored with i >= j.
Pairs == {<<0, 0>>, <<1, 0>>, <<1, 1>>}

NoPair == <<>>

\* The stored pair of the orbitals a and b.
StoredPair(a, b) == IF a >= b THEN <<a, b>> ELSE <<b, a>>

\* The value of KUnit: three pairs are updated in every cycle, and every
\* update can halve the power of two that divides the amplitudes.
KUnit == Pow2(3 * MaxCyc)

VARIABLES
  \* the call and its arguments
  entry,            \* the entry point called
  inputPairs,       \* the pair list the caller passes
  \* LocalMP2Settings and the settings of the local correlation controller
  settings,
  nThreads,         \* omp_get_max_threads(); 1 in a build without OpenMP
  f_MO,             \* occupied block of the Fock matrix, [Occ \X Occ -> Int]
  \* the fields of every OrbitalPair
  type, k_ij, uncoupledTerm, t_ij, residual, lMP2PairEnergy, deltaPNO,
  scMP2PairEnergy, dipolePairEnergy, coupledPairs,
  \* the locals of calculateEnergyCorrection and optimizeAmplitudes
  pc,               \* position of the single thread
  orbitalPairs, veryDistantPairs,
  largestResidual, cycle, oldEnergy, newEnergy,
  pairIdx,          \* position of the pair loop in orbitalPairs (from 1)
  increments,       \* the accumulators; increments[0] is *residual
  pending,          \* indices of the parallel loop not yet executed
  index, threadId,  \* the iteration executed last and the worker that ran it
  inc,              \* position of the merge loop
  diis,             \* the stored amplitude snapshots of the DIIS wrapper
  energies,         \* the 3-vector returned to the caller, or NoVec
  nEnergyCalls,     \* calls of calculateEnergy by the caller after return
  \* records of the run
  reads,            \* the companion amplitudes read by the last iteration
  cycleStart,       \* the amplitudes at the start of the current cycle
  cycleResidual,    \* the residual computed in this cycle, per pair
  stages,           \* the stages of the entry point entered so far
  printed,          \* the last line of the cycle table, or NoLine
  thrown,           \* what the SerenityError thrown carries, or NoError
  \* OrbitalController
  eigenvalues,      \* *_eigenvalues, a vector per spin
  isCoreOrbital,    \* *_isCoreOrbital, a vector of 0 and 1 per spin
  lastCall,         \* the last call made on the controller, or NoCall
  nCalls,           \* calls made on the controller
  \* RI_J_IntegralController
  auxMetric,        \* the Coulomb metric of the auxiliary basis as it is now
  M,                \* *_M, or NoMetric while _M is null
  lltM,             \* *_lltM, or NoLLT while _lltM is null
  inverseM,         \* _inverseM, or NoMetric while it has no columns
  inverseMSqrt,     \* _inverseMSqrt, or NoMetric while it has no columns
  lltResult,        \* how the last call of getLLTMetric ended, or NoCall
  nLLTCalls,        \* calls of getLLTMetric
  nFactorizations,  \* Eigen::LLT objects constructed so far
  \* OrbitalController: the canonical orthogonalization
  overlap,          \* eigenvalues of the overlap matrix, ascending
  X,                \* _X: the eigenvectors its columns are built from
  nZero,            \* _nZero
  linearDependent,  \* _linearDependent
  orbitalCoefficients, \* *_coefficients, the columns per spin
  firstIteration,   \* _firstIteration
  nUpdates,         \* calls of updateOrbitals(fockMatrix, ...)
  \* LRSCFController
  coefficients,     \* _coefficients, the columns per spin
  orbitalEnergies,  \* _orbitalEnergies, a vector per spin
  nOcc, nVirt,      \* _nOcc and _nVirt, a number per spin
  lastEdit,         \* the last call of editReference, or NoCall
  nEdits            \* calls of editReference

pairFields == <<type, k_ij, uncoupledTerm, deltaPNO, scMP2PairEnergy,
                dipolePairEnergy, coupledPairs>>

inputs == <<entry, inputPairs, settings, nThreads, f_MO>>

localMP2 == <<entry, inputPairs, settings, nThreads, f_MO, type, k_ij,
              uncoupledTerm, t_ij, residual, lMP2PairEnergy, deltaPNO,
              scMP2PairEnergy, dipolePairEnergy, coupledPairs, pc, orbitalPairs,
              veryDistantPairs, largestResidual, cycle, oldEnergy, newEnergy,
              pairIdx, increments, pending, index, threadId, inc, diis, energies,
              nEnergyCalls, reads, cycleStart, cycleResidual, stages,
              printed, thrown>>

log == <<stages, printed, thrown>>

orbitalController == <<eigenvalues, isCoreOrbital, lastCall, nCalls>>

integralController ==
  <<auxMetric, M, lltM, inverseM, inverseMSqrt, lltResult, nLLTCalls,
    nFactorizations>>

transformation ==
  <<overlap, X, nZero, linearDependent, orbitalCoefficients, firstIteration,
    nUpdates>>

lrscfController ==
  <<coefficients, orbitalEnergies, nOcc, nVirt, lastEdit, nEdits>>

\* The objects beside LocalMP2.
collaborators ==
  <<orbitalController, transformation, integralController, lrscfController>>

vars == <<localMP2, collaborators>>

NoVec == <<>>

NoMat == <<>>

\* No line printed, no error thrown, no call made.
NoLine == <<>>

NoError == <<>>

NoCall == <<>>

\* ------------------------------------------------------------------------
\* The coupling sum of one pair (optimizeAmplitudes, the parallel loop)
\* ------------------------------------------------------------------------
Workers == 0 .. (nThreads - 1)

\* The pair the pair loop is at.
CurPair == orbitalPairs[pairIdx]

\* Mutant of KJActive: the test i != k is left out.
KJActiveOwnPairRead(p, cs) ==
  /\ Abs(f_MO[<<p[1], cs.k>>]) >= settings.f_cut
  /\ cs.kjPair # NoPair

\* std::fabs(f_MO(i, k)) >= f_cut && kjPair && i != k
KJActive(p, cs) ==
  /\ Abs(f_MO[<<p[1], cs.k>>]) >= settings.f_cut
  /\ cs.kjPair # NoPair
  /\ p[1] # cs.k

\* Mutant of KJAmplitudes: the comparison of k and j reversed.
KJAmplitudesReversed(p, cs) ==
  IF cs.k <= p[2] THEN t_ij[cs.kjPair] ELSE MT(t_ij[cs.kjPair])

\* (k >= j) ? kjPair->t_ij : kjPair->t_ij.transpose()
KJAmplitudes(p, cs) ==
  IF cs.k >= p[2] THEN t_ij[cs.kjPair] ELSE MT(t_ij[cs.kjPair])

\* f_MO(i, k) * s_ij_kj * t_kj * s_ij_kj.transpose()
KJTerm(p, cs) ==
  MScale(f_MO[<<p[1], cs.k>>],
         MMul(MMul(cs.s_ij_kj, KJAmplitudes(p, cs)), MT(cs.s_ij_kj)))

\* std::fabs(f_MO(j, k)) >= f_cut && ikPair && j != k
IKActive(p, cs) ==
  /\ Abs(f_MO[<<p[2], cs.k>>]) >= settings.f_cut
  /\ cs.ikPair # NoPair
  /\ p[2] # cs.k

\* Mutant of IKAmplitudes: the amplitudes are never transposed.
IKAmplitudesAsStored(p, cs) == t_ij[cs.ikPair]

\* (i >= k) ? ikPair->t_ij : ikPair->t_ij.transpose()
IKAmplitudes(p, cs) ==
  IF p[1] >= cs.k THEN t_ij[cs.ikPair] ELSE MT(t_ij[cs.ikPair])

\* f_MO(k, j) * s_ij_ik * t_ik * s_ij_ik.transpose()
IKTerm(p, cs) ==
  MScale(f_MO[<<cs.k, p[2]>>],
         MMul(MMul(cs.s_ij_ik, IKAmplitudes(p, cs)), MT(cs.s_ij_ik)))

\* Mutant of IterationTerms: an iteration with a missing companion is left
\* out as a whole.
IterationTermsNeedBoth(p, cs) ==
  IF cs.kjPair = NoPair \/ cs.ikPair = NoPair THEN ZeroM
  ELSE MAdd(IF KJActive(p, cs) THEN KJTerm(p, cs) ELSE ZeroM,
            IF IKActive(p, cs) THEN IKTerm(p, cs) ELSE ZeroM)

\* What one iteration of the parallel loop subtracts from its accumulator.
IterationTerms(p, cs) ==
  MAdd(IF KJActive(p, cs) THEN KJTerm(p, cs) ELSE ZeroM,
       IF IKActive(p, cs) THEN IKTerm(p, cs) ELSE ZeroM)

\* The amplitudes of other pairs one iteration reads: which ordered index
\* pair was asked for, which stored pair was read, the matrix found there
\* and the matrix used in the product.
IterationReads(p, cs) ==
  (IF KJActive(p, cs)
     THEN {[term |-> "kj", wanted |-> <<cs.k, p[2]>>, pair |-> cs.kjPair,
            stored |-> t_ij[cs.kjPair], used |-> KJAmplitudes(p, cs)]}
     ELSE {})
  \cup
  (IF IKActive(p, cs)
     THEN {[term |-> "ik", wanted |-> <<p[1], cs.k>>, pair |-> cs.ikPair,
            stored |-> t_ij[cs.ikPair], used |-> IKAmplitudes(p, cs)]}
     ELSE {})

\* The first three terms of the residual: k_ij + uncoupledTerm (*) t_ij.
LocalResidual(p) == MAdd(k_ij[p], MHad(uncoupledTerm[p], t_ij[p]))

\* The accumulators at the start of the parallel region: increments[0] is
\* the residual itself, the others are zero matrices.
InitialIncrements(p) ==
  [w \in Workers |-> IF w = 0 THEN LocalResidual(p) ELSE ZeroM]

\* Mutant of TargetIncrement: every worker writes accumulator 0.
SharedIncrement(w) == 0

\* The accumulator a worker writes in an iteration.
TargetIncrement(w) == w

\* t_ij -= residual / uncoupledTerm
UpdatedAmplitudes(p, res) == MSub(t_ij[p], MQuot(res, uncoupledTerm[p]))

\* ------------------------------------------------------------------------
\* calculateEnergy
\* ------------------------------------------------------------------------
RECURSIVE SeqSum(_)
SeqSum(q) == IF q = <<>> THEN 0 ELSE Head(q) + SeqSum(Tail(q))

\* (pair->i == pair->j ? 1.0 : 2.0)
PairFactor(p) == IF p[1] = p[2] THEN 1 ELSE 2

\* factor * ((t_ij - t_ij.transpose()).array() * k_ij.array()).sum()
SSEnergy(p) ==
  PairFactor(p) * MSum(MHad(MSub(t_ij[p], MT(t_ij[p])), k_ij[p]))

\* factor * (t_ij.array() * k_ij.array()).sum()
OSEnergy(p) == PairFactor(p) * MSum(MHad(t_ij[p], k_ij[p]))

\* Mutant of PairEnergy: the two scaling factors change places.
PairEnergyScalingsSwapped(p) ==
  settings.osScaling * SSEnergy(p) + settings.ssScaling * OSEnergy(p)

\* settings.ssScaling * ssEnergy + settings.osScaling * osEnergy
PairEnergy(p) ==
  settings.ssScaling * SSEnergy(p) + settings.osScaling * OSEnergy(p)

\* Mutant of StoredPairEnergy: the pair energy is added to the stored one.
StoredPairEnergyAccumulated(p) ==
  lMP2PairEnergy[p] + PairEnergy(p) + deltaPNO[p]

\* pair->lMP2PairEnergy = pairEnergy + pair->deltaPNO
StoredPairEnergy(p) == PairEnergy(p) + deltaPNO[p]

\* Mutant of DipoleContribution: both energies of the pair are counted.
DipoleContributionBoth(p) == scMP2PairEnergy[p] + dipolePairEnergy[p]

\* The contribution of a very distant pair.
DipoleContribution(p) ==
  IF scMP2PairEnergy[p] # 0 THEN scMP2PairEnergy[p] ELSE dipolePairEnergy[p]

\* Mutant of EnergyVector: the first component holds the stored pair
\* energies, deltaPNO included.
EnergyVectorTruncationTwice(closePairs, veryDistant) ==
  <<SeqSum([n \in 1 .. Len(closePairs) |-> StoredPairEnergy(closePairs[n])]),
    SeqSum([n \in 1 .. Len(veryDistant) |-> DipoleContribution(veryDistant[n])]),
    SeqSum([n \in 1 .. Len(closePairs) |-> deltaPNO[closePairs[n]]])>>

\* The 3-vector calculateEnergy(closePairs, veryDistant) returns.
EnergyVector(closePairs, veryDistant) ==
  <<SeqSum([n \in 1 .. Len(closePairs) |-> PairEnergy(closePairs[n])]),
    SeqSum([n \in 1 .. Len(veryDistant) |-> DipoleContribution(veryDistant[n])]),
    SeqSum([n \in 1 .. Len(closePairs) |-> deltaPNO[closePairs[n]]])>>

InList(p, list) == \E n \in 1 .. Len(list) : list[n] = p

\* Mutant of EnergiesWritten: the loop runs over every pair of the system.
EnergiesWrittenToAll(closePairs) == [p \in Pairs |-> StoredPairEnergy(p)]

\* The pair energies calculateEnergy(closePairs, ...) leaves behind.
EnergiesWritten(closePairs) ==
  [p \in Pairs |->
     IF InList(p, closePairs) THEN StoredPairEnergy(p) ELSE lMP2PairEnergy[p]]

\* ------------------------------------------------------------------------
\* The convergence accelerator (OrbitalPairDIISWrapper)
\* ------------------------------------------------------------------------
\* The history after the current amplitudes have been stored in it.
DiisStored ==
  LET all == Append(diis, t_ij)
  IN  IF Len(all) > settings.diisMaxStore THEN Tail(all) ELSE all

\* The amplitudes optimize(orbitalPairs) can leave behind: the ones it found
\* (the first call, or a singular subspace problem), or a combination of the
\* stored snapshots of the pairs it was given whose coefficients sum to one.
DiisOutcomes(hist, list) ==
  {t_ij} \cup
  (IF Len(hist) < 2 THEN {}
   ELSE LET cur == hist[Len(hist)]
            old == hist[Len(hist) - 1]
        IN  {[p \in Pairs |-> IF InList(p, list) THEN old[p] ELSE t_ij[p]],
             [p \in Pairs |->
                IF InList(p, list)
                  THEN MSub(MScale(2, cur[p]), old[p]) ELSE t_ij[p]]})

\* ------------------------------------------------------------------------
\* The states a run starts in
\* ------------------------------------------------------------------------
\* The coupling map: a coupling set for every pair and every k, its
\* companion pairs left out where they were screened away.
CouplingMap(screened, sKJ, sIK) ==
  [p \in Pairs |->
     [n \in 1 .. Cardinality(Occ) |->
        LET k == n - 1
        IN  [k |-> k,
             kjPair |-> IF <<p, k, "kj">> \in screened
                          THEN NoPair ELSE StoredPair(k, p[2]),
             ikPair |-> IF <<p, k, "ik">> \in screened
                          THEN NoPair ELSE StoredPair(p[1], k),
             s_ij_kj |-> sKJ,
             s_ij_ik |-> sIK]]]

\* The occupied block of a symmetric Fock matrix.
FockBlock(offDiagonal) ==
  [ab \in Occ \X Occ |-> IF ab[1] = ab[2] THEN 2 ELSE offDiagonal]

\* Exchange integrals: symmetric for a diagonal pair, not for the others;
\* the small ones are below the value largestResidual starts with, the mixed
\* ones are so for the diagonal pairs only.
ExchangeIntegrals(choice) ==
  [p \in Pairs |->
     IF choice = "zero" THEN ZeroM
     ELSE IF choice = "small"
       THEN IF p[1] = p[2] THEN <<2, 0, 0, 2>> ELSE <<0, 4, 0, 0>>
     ELSE IF choice = "mixed"
       THEN IF p[1] = p[2] THEN <<2, 0, 0, 2>> ELSE <<0, KUnit, 0, 0>>
     ELSE IF choice = "even"
       THEN IF p[1] = p[2] THEN <<8, 0, 0, 8>> ELSE <<0, 16, 0, 0>>
     ELSE IF p[1] = p[2] THEN <<KUnit, 0, 0, KUnit>> ELSE <<0, KUnit, 0, 0>>]

\* The start of a run whose inputs are drawn from the sets of `from`.
InitWith(from) ==
  /\ entry \in from.entries
  /\ inputPairs \in from.lists
  /\ type \in from.types
  /\ \E c \in from.integrals : k_ij = ExchangeIntegrals(c)
  /\ \E u \in from.uncoupledTerms : uncoupledTerm = [p \in Pairs |-> u]
  /\ \E fo \in from.fockOffDiagonals : f_MO = FockBlock(fo)
  /\ \E s \in from.projectors, scr \in from.screened,
        built \in from.couplingSets :
       coupledPairs = IF built THEN CouplingMap(scr, s[1], s[2])
                      ELSE [p \in Pairs |-> <<>>]
  /\ \E mr \in from.maxResiduals, mc \in from.maxCycles,
        ds \in from.diisStartResiduals, fc \in from.fockCutoffs,
        sc \in from.scalings :
       settings = [maxResidual |-> mr, maxCycles |-> mc, ssScaling |-> sc[1],
                   osScaling |-> sc[2], diisStartResidual |-> ds,
                   f_cut |-> fc, diisMaxStore |-> 2]
  /\ nThreads \in from.threads
  /\ t_ij = [p \in Pairs |-> ZeroM]
  /\ residual = [p \in Pairs |-> ZeroM]
  /\ lMP2PairEnergy = [p \in Pairs |-> 0]
  /\ deltaPNO = [p \in Pairs |-> 1]
  /\ scMP2PairEnergy = [p \in Pairs |-> IF p = <<1, 0>> THEN 0 ELSE 3]
  /\ dipolePairEnergy = [p \in Pairs |-> 5]
  /\ pc = "start"
  /\ orbitalPairs = <<>>
  /\ veryDistantPairs = <<>>
  /\ largestResidual = 0
  /\ cycle = 0
  /\ oldEnergy = 0
  /\ newEnergy = 0
  /\ pairIdx = 1
  /\ increments = <<>>
  /\ pending = {}
  /\ index = 0
  /\ threadId = 0
  /\ inc = 0
  /\ diis = <<>>
  /\ energies = NoVec
  /\ nEnergyCalls = 0
  /\ reads = {}
  /\ cycleStart = t_ij
  /\ cycleResidual = [p \in Pairs |-> NoMat]
  /\ stages = <<>>
  /\ printed = NoLine
  /\ thrown = NoError

\* No orbital controller takes part in a run of LocalMP2.
NoOrbitalController ==
  /\ eigenvalues = <<>>
  /\ isCoreOrbital = <<>>
  /\ lastCall = NoCall
  /\ nCalls = 0

NoMetric == <<>>

NoLLT == <<>>

\* No RI_J_IntegralController has been constructed.
NoIntegralController ==
  /\ auxMetric = NoMetric
  /\ M = NoMetric
  /\ lltM = NoLLT
  /\ inverseM = NoMetric
  /\ inverseMSqrt = NoMetric
  /\ lltResult = NoCall
  /\ nLLTCalls = 0
  /\ nFactorizations = 0

\* No transformation matrix: the members of an OrbitalController that
\* updateOrbitals(fockMatrix, ...) uses are not looked at.
NoTransformation ==
  /\ overlap = <<>>
  /\ X = <<>>
  /\ nZero = 0
  /\ linearDependent = FALSE
  /\ orbitalCoefficients = <<>>
  /\ firstIteration = TRUE
  /\ nUpdates = 0

\* No LRSCFController has been constructed.
NoLRSCFController ==
  /\ coefficients = <<>>
  /\ orbitalEnergies = <<>>
  /\ nOcc = <<>>
  /\ nVirt = <<>>
  /\ lastEdit = NoCall
  /\ nEdits = 0

\* LocalMP2 runs alone.
NoCollaborators ==
  /\ NoOrbitalController
  /\ NoTransformation
  /\ NoIntegralController
  /\ NoLRSCFController

\* ------------------------------------------------------------------------
\* calculateEnergyCorrection(pairs) and optimizeAmplitudes
\* ------------------------------------------------------------------------
\* The pairs of a list that are, or are not, very distant, in list order.
VeryDistantOf(list) ==
  SelectSeq(list, LAMBDA p : type[p] = "VERY_DISTANT")

\* Mutant of CloseOf: a distant pair is put in neither list.
CloseOfTypeClose(list) == SelectSeq(list, LAMBDA p : type[p] = "CLOSE")

CloseOf(list) ==
  SelectSeq(list, LAMBDA p : type[p] # "VERY_DISTANT")

\* cycle > settings.maxCycles - 1, both unsigned: for maxCycles = 0 the right
\* side wraps to the largest unsigned value and no cycle count exceeds it.
LimitReached(c) == settings.maxCycles # 0 /\ c > settings.maxCycles - 1

\* while (largestResidual > settings.maxResidual)
LoopContinues == largestResidual > settings.maxResidual

\* The locals of optimizeAmplitudes before the loop.
Prologue ==
  /\ largestResidual' = InitialLargestResidual
  /\ cycle' = 0
  /\ oldEnergy' = 0
  /\ diis' = <<>>
  /\ stages' = Append(stages, "optimizeAmplitudes")
  /\ pc' = "while"

\* calculateEnergyCorrection(pairs): split the list, then optimizeAmplitudes.
EnergyCorrectionCall ==
  /\ pc = "start"
  /\ entry = "calculateEnergyCorrection"
  /\ orbitalPairs' = CloseOf(inputPairs)
  /\ veryDistantPairs' = VeryDistantOf(inputPairs)
  /\ Prologue
  /\ UNCHANGED <<collaborators, printed, thrown, inputs,
                 pairFields, t_ij, residual, lMP2PairEnergy,
                 newEnergy, pairIdx, increments, pending, index, threadId,
                 inc, energies, nEnergyCalls, reads, cycleStart,
                 cycleResidual>>

\* _localCorrelationController->getOrbitalPairs(tier): the pairs of the
\* controller that are of this tier, in the order the controller holds them.
GetOrbitalPairs(tier) == SelectSeq(inputPairs, LAMBDA p : type[p] = tier)

\* calculateEnergyCorrection(): the lists come from the controller, the
\* distant pairs are appended to the close ones.
EnergyCorrectionNoArgCall ==
  /\ pc = "start"
  /\ entry = "calculateEnergyCorrection()"
  /\ veryDistantPairs' = GetOrbitalPairs("VERY_DISTANT")
  /\ orbitalPairs' = GetOrbitalPairs("CLOSE") \o GetOrbitalPairs("DISTANT")
  /\ pc' = "integrals"
  /\ UNCHANGED <<collaborators, log, inputs, pairFields, t_ij, residual,
                 lMP2PairEnergy, largestResidual, cycle, oldEnergy, newEnergy,
                 pairIdx, increments, pending, index, threadId, inc, diis,
                 energies, nEnergyCalls, reads, cycleStart, cycleResidual>>

\* generateExchangeIntegrals(orbitalPairs, veryDistantPairs), then the call
\* of optimizeAmplitudes. The integrals and the coupling map are the ones
\* the run starts with; the semi-canonical energy is evaluated with
\* calculateEnergy, which stores the pair energies.
GenerateExchangeIntegrals ==
  /\ pc = "integrals"
  /\ lMP2PairEnergy' = EnergiesWritten(orbitalPairs)
  /\ largestResidual' = InitialLargestResidual
  /\ cycle' = 0
  /\ oldEnergy' = 0
  /\ diis' = <<>>
  /\ stages' =
       stages \o <<"generateExchangeIntegrals", "optimizeAmplitudes">>
  /\ pc' = "while"
  /\ UNCHANGED <<collaborators, printed, thrown, inputs, pairFields,
                 t_ij, residual, orbitalPairs, veryDistantPairs, newEnergy,
                 pairIdx, increments, pending, index, threadId, inc, energies,
                 nEnergyCalls, reads, cycleStart, cycleResidual>>

\* optimizeAmplitudes(orbitalPairs, veryDistantPairs) on the caller's lists.
OptimizeAmplitudesCall ==
  /\ pc = "start"
  /\ entry = "optimizeAmplitudes"
  /\ orbitalPairs' = inputPairs
  /\ veryDistantPairs' = VeryDistantOf(inputPairs)
  /\ Prologue
  /\ UNCHANGED <<collaborators, printed, thrown, inputs,
                 pairFields, t_ij, residual, lMP2PairEnergy,
                 newEnergy, pairIdx, increments, pending, index, threadId,
                 inc, energies, nEnergyCalls, reads, cycleStart,
                 cycleResidual>>

\* The loop test succeeds: a cycle begins.
BeginCycle ==
  /\ pc = "while"
  /\ LoopContinues
  /\ cycle < MaxCyc
  /\ largestResidual' = 0
  /\ pairIdx' = 1
  /\ cycleStart' = t_ij
  /\ cycleResidual' = [p \in Pairs |-> NoMat]
  /\ reads' = {}
  /\ pc' = "pair"
  /\ UNCHANGED <<collaborators, log, inputs,
                 pairFields, t_ij, residual, lMP2PairEnergy,
                 orbitalPairs, veryDistantPairs, cycle, oldEnergy, newEnergy,
                 increments, pending, index, threadId, inc, diis, energies,
                 nEnergyCalls>>

\* The loop test fails: "Converged!", optimizeAmplitudes returns.
LoopExit ==
  /\ pc = "while"
  /\ ~LoopContinues
  /\ pc' = "converged"
  /\ UNCHANGED <<collaborators, log, inputs,
                 pairFields, t_ij, residual, lMP2PairEnergy,
                 orbitalPairs, veryDistantPairs, largestResidual, cycle,
                 oldEnergy, newEnergy, pairIdx, increments, pending, index,
                 threadId, inc, diis, energies, nEnergyCalls, reads,
                 cycleStart, cycleResidual>>

\* Mutant of SkipsPair: no pair is skipped.
SkipsNoPair(p) == FALSE

\* if (pair->type == VERY_DISTANT) continue;
SkipsPair(p) == type[p] = "VERY_DISTANT"

SkipVeryDistant ==
  /\ pc = "pair"
  /\ pairIdx <= Len(orbitalPairs)
  /\ SkipsPair(CurPair)
  /\ pairIdx' = pairIdx + 1
  /\ UNCHANGED <<collaborators, log, inputs,
                 pairFields, t_ij, residual, lMP2PairEnergy, pc,
                 orbitalPairs, veryDistantPairs, largestResidual, cycle,
                 oldEnergy, newEnergy, increments, pending, index, threadId,
                 inc, diis, energies, nEnergyCalls, reads, cycleStart,
                 cycleResidual>>

\* Mutant of BeginPair: the copy at the head of the pair's residual runs the
\* other way, pair->k_ij = pair->residual.
BeginPairIntegralsOverwritten ==
  /\ pc = "pair"
  /\ pairIdx <= Len(orbitalPairs)
  /\ ~SkipsPair(CurPair)
  /\ k_ij' = [k_ij EXCEPT ![CurPair] = residual[CurPair]]
  /\ increments' = InitialIncrements(CurPair)
  /\ pending' = 1 .. Len(coupledPairs[CurPair])
  /\ reads' = {}
  /\ pc' = "parallel"
  /\ UNCHANGED <<collaborators, log, inputs, type, uncoupledTerm,
                 deltaPNO, scMP2PairEnergy, dipolePairEnergy, coupledPairs,
                 residual, t_ij, lMP2PairEnergy, orbitalPairs,
                 veryDistantPairs, largestResidual, cycle, oldEnergy,
                 newEnergy, pairIdx, index, threadId, inc, diis, energies,
                 nEnergyCalls, cycleStart, cycleResidual>>

\* The first terms of the residual and the accumulators; the parallel
\* region opens.
BeginPair ==
  /\ pc = "pair"
  /\ pairIdx <= Len(orbitalPairs)
  /\ ~SkipsPair(CurPair)
  /\ residual' = [residual EXCEPT ![CurPair] = k_ij[CurPair]]
  /\ increments' = InitialIncrements(CurPair)
  /\ pending' = 1 .. Len(coupledPairs[CurPair])
  /\ reads' = {}
  /\ pc' = "parallel"
  /\ UNCHANGED <<collaborators, log, inputs,
                 pairFields, t_ij, lMP2PairEnergy, orbitalPairs,
                 veryDistantPairs, largestResidual, cycle, oldEnergy,
                 newEnergy, pairIdx, index, threadId, inc, diis, energies,
                 nEnergyCalls, cycleStart, cycleResidual>>

\* One iteration of the parallel loop, run by worker w.
CouplingIteration(w, n) ==
  /\ pc = "parallel"
  /\ n \in pending
  /\ LET cs == coupledPairs[CurPair][n]
     IN  /\ increments' =
              [increments EXCEPT ![TargetIncrement(w)] =
                 MSub(@, IterationTerms(CurPair, cs))]
         /\ reads' = IterationReads(CurPair, cs)
  /\ pending' = pending \ {n}
  /\ index' = n
  /\ threadId' = w
  /\ UNCHANGED <<collaborators, log, inputs,
                 pairFields, t_ij, residual, lMP2PairEnergy, pc,
                 orbitalPairs, veryDistantPairs, largestResidual, cycle,
                 oldEnergy, newEnergy, pairIdx, inc, diis, energies,
                 nEnergyCalls, cycleStart, cycleResidual>>

\* The barrier at the end of the parallel region.
EndParallel ==
  /\ pc = "parallel"
  /\ pending = {}
  /\ inc' = 1
  /\ pc' = "merge"
  /\ UNCHANGED <<collaborators, log, inputs,
                 pairFields, t_ij, residual, lMP2PairEnergy,
                 orbitalPairs, veryDistantPairs, largestResidual, cycle,
                 oldEnergy, newEnergy, pairIdx, increments, pending, index,
                 threadId, diis, energies, nEnergyCalls, reads, cycleStart,
                 cycleResidual>>

\* *increments[0] += *increments[inc]
MergeStep ==
  /\ pc = "merge"
  /\ inc < nThreads
  /\ increments' = [increments EXCEPT ![0] = MAdd(@, increments[inc])]
  /\ inc' = inc + 1
  /\ UNCHANGED <<collaborators, log, inputs,
                 pairFields, t_ij, residual, lMP2PairEnergy, pc,
                 orbitalPairs, veryDistantPairs, largestResidual, cycle,
                 oldEnergy, newEnergy, pairIdx, pending, index, threadId,
                 diis, energies, nEnergyCalls, reads, cycleStart,
                 cycleResidual>>

\* Mutant of AmplitudesAfterUpdate: the update is lost.
AmplitudesUpdateLost(p) == t_ij

\* Mutant of AmplitudesAfterUpdate: the update is written to the first pair
\* of the list.
AmplitudesWrittenToFirst(p) ==
  [t_ij EXCEPT ![orbitalPairs[1]] = UpdatedAmplitudes(p, increments[0])]

\* Mutant of AmplitudesAfterUpdate: the quotient is added to the amplitudes.
AmplitudesUpdateAdded(p) ==
  [t_ij EXCEPT ![p] = MAdd(t_ij[p], MQuot(increments[0], uncoupledTerm[p]))]

\* The amplitudes after the update of pair p with the merged residual.
AmplitudesAfterUpdate(p) ==
  [t_ij EXCEPT ![p] = UpdatedAmplitudes(p, increments[0])]

\* update amplitudes, track the largest residual, next pair
UpdateAmplitudes ==
  /\ pc = "merge"
  /\ inc >= nThreads
  /\ t_ij' = AmplitudesAfterUpdate(CurPair)
  /\ cycleResidual' = [cycleResidual EXCEPT ![CurPair] = increments[0]]
  /\ largestResidual' =
       IF MaxAbsCoeff(increments[0]) > largestResidual
         THEN MaxAbsCoeff(increments[0]) ELSE largestResidual
  /\ pairIdx' = pairIdx + 1
  /\ pc' = "pair"
  /\ UNCHANGED <<collaborators, log, inputs,
                 pairFields, residual, lMP2PairEnergy, orbitalPairs,
                 veryDistantPairs, cycle, oldEnergy, newEnergy, increments,
                 pending, index, threadId, inc, diis, energies, nEnergyCalls,
                 reads, cycleStart>>

\* std::printf("%6d %12f %12f %12f\n", cycle, largestResidual, newEnergy,
\* oldEnergy - newEnergy) after ++cycle
CycleLine(c, e) ==
  [cycle |-> c, residual |-> largestResidual, energy |-> e,
   delta |-> oldEnergy - e]

\* Mutant of ErrorContent: the count of the cycles before this one.
ErrorContentBeforeIncrement(c) == [cycles |-> c - 1]

\* "Canceling amplitude optimization after " + cycle + " cycles. NOT
\* CONVERGED!!!": the values the message of the SerenityError holds.
ErrorContent(c) == [cycles |-> c]

\* Mutant of EndCycle: the accelerator runs before the energy is evaluated.
EndCycleAcceleratorFirst ==
  /\ pc = "pair"
  /\ pairIdx > Len(orbitalPairs)
  /\ cycle' = cycle + 1
  /\ IF settings.diisStartResidual > largestResidual
       THEN /\ diis' = DiisStored
            /\ t_ij' \in DiisOutcomes(DiisStored, orbitalPairs)
       ELSE UNCHANGED <<diis, t_ij>>
  /\ UNCHANGED <<collaborators, stages, inputs,
                 pairFields, residual, orbitalPairs,
                 veryDistantPairs, largestResidual, pairIdx, increments,
                 pending, index, threadId, inc, energies, nEnergyCalls,
                 reads, cycleStart, cycleResidual>>
  /\ newEnergy' = SeqSum(EnergyVector(orbitalPairs, veryDistantPairs))'
  /\ lMP2PairEnergy' = EnergiesWritten(orbitalPairs)
  /\ printed' = CycleLine(cycle + 1, newEnergy')
  /\ oldEnergy' = newEnergy'
  /\ IF LimitReached(cycle + 1)
       THEN thrown' = ErrorContent(cycle + 1) /\ pc' = "error"
       ELSE thrown' = thrown /\ pc' = "while"

\* Mutant of EndCycle: the accelerator is left out in a cycle that has met
\* maxResidual.
EndCycleNoAcceleratorWhenConverged ==
  /\ pc = "pair"
  /\ pairIdx > Len(orbitalPairs)
  /\ cycle' = cycle + 1
  /\ newEnergy' = SeqSum(EnergyVector(orbitalPairs, veryDistantPairs))
  /\ lMP2PairEnergy' = EnergiesWritten(orbitalPairs)
  /\ IF settings.diisStartResidual > largestResidual /\ LoopContinues
       THEN /\ diis' = DiisStored
            /\ t_ij' \in DiisOutcomes(DiisStored, orbitalPairs)
       ELSE UNCHANGED <<diis, t_ij>>
  /\ printed' = CycleLine(cycle + 1, newEnergy')
  /\ oldEnergy' = newEnergy'
  /\ IF LimitReached(cycle + 1)
       THEN thrown' = ErrorContent(cycle + 1) /\ pc' = "error"
       ELSE thrown' = thrown /\ pc' = "while"
  /\ UNCHANGED <<collaborators, stages, inputs,
                 pairFields, residual, orbitalPairs,
                 veryDistantPairs, largestResidual, pairIdx, increments,
                 pending, index, threadId, inc, energies, nEnergyCalls,
                 reads, cycleStart, cycleResidual>>

\* After the pair loop: ++cycle, the energy, the accelerator, the cycle cap.
EndCycle ==
  /\ pc = "pair"
  /\ pairIdx > Len(orbitalPairs)
  /\ cycle' = cycle + 1
  /\ newEnergy' = SeqSum(EnergyVector(orbitalPairs, veryDistantPairs))
  /\ lMP2PairEnergy' = EnergiesWritten(orbitalPairs)
  /\ IF settings.diisStartResidual > largestResidual
       THEN /\ diis' = DiisStored
            /\ t_ij' \in DiisOutcomes(DiisStored, orbitalPairs)
       ELSE UNCHANGED <<diis, t_ij>>
  /\ printed' = CycleLine(cycle + 1, newEnergy')
  /\ oldEnergy' = newEnergy'
  /\ IF LimitReached(cycle + 1)
       THEN thrown' = ErrorContent(cycle + 1) /\ pc' = "error"
       ELSE thrown' = thrown /\ pc' = "while"
  /\ UNCHANGED <<collaborators, stages, inputs,
                 pairFields, residual, orbitalPairs,
                 veryDistantPairs, largestResidual, pairIdx, increments,
                 pending, index, threadId, inc, energies, nEnergyCalls,
                 reads, cycleStart, cycleResidual>>

\* The two calculateEnergyCorrection entry points return calculateEnergy(...).
ReturnsEnergies == entry # "optimizeAmplitudes"

\* Mutant of Return: the entry point returns what the last cycle evaluated
\* at line 182 and does not evaluate the energy again.
ReturnLoopEnergies ==
  /\ pc = "converged"
  /\ IF ReturnsEnergies
       THEN /\ energies' =
                 <<SeqSum([n \in 1 .. Len(orbitalPairs) |->
                            lMP2PairEnergy[orbitalPairs[n]]
                            - deltaPNO[orbitalPairs[n]]]),
                   EnergyVector(orbitalPairs, veryDistantPairs)[2],
                   EnergyVector(orbitalPairs, veryDistantPairs)[3]>>
            /\ stages' = Append(stages, "calculateEnergy")
       ELSE UNCHANGED <<energies, stages>>
  /\ pc' = "done"
  /\ UNCHANGED <<collaborators, printed, thrown, inputs, pairFields,
                 t_ij, residual, lMP2PairEnergy, orbitalPairs,
                 veryDistantPairs, largestResidual, cycle, oldEnergy,
                 newEnergy, pairIdx, increments, pending, index, threadId,
                 inc, diis, nEnergyCalls, reads, cycleStart, cycleResidual>>

\* return calculateEnergy(closePairs, veryDistantPairs), or the plain return
\* of optimizeAmplitudes to its caller.
Return ==
  /\ pc = "converged"
  /\ IF ReturnsEnergies
       THEN /\ energies' = EnergyVector(orbitalPairs, veryDistantPairs)
            /\ lMP2PairEnergy' = EnergiesWritten(orbitalPairs)
            /\ stages' = Append(stages, "calculateEnergy")
       ELSE UNCHANGED <<energies, lMP2PairEnergy, stages>>
  /\ pc' = "done"
  /\ UNCHANGED <<collaborators, printed, thrown, inputs,
                 pairFields, t_ij, residual, orbitalPairs,
                 veryDistantPairs, largestResidual, cycle, oldEnergy,
                 newEnergy, pairIdx, increments, pending, index, threadId,
                 inc, diis, nEnergyCalls, reads, cycleStart, cycleResidual>>

\* calculateEnergy called again on the same two lists.
CalculateEnergyCall ==
  /\ pc = "done"
  /\ ReturnsEnergies
  /\ nEnergyCalls < MaxEnergyCalls
  /\ energies' = EnergyVector(orbitalPairs, veryDistantPairs)
  /\ lMP2PairEnergy' = EnergiesWritten(orbitalPairs)
  /\ nEnergyCalls' = nEnergyCalls + 1
  /\ UNCHANGED <<collaborators, log, inputs,
                 pairFields, t_ij, residual, pc, orbitalPairs,
                 veryDistantPairs, largestResidual, cycle, oldEnergy,
                 newEnergy, pairIdx, increments, pending, index, threadId,
                 inc, diis, reads, cycleStart, cycleResidual>>

Next ==
  \/ EnergyCorrectionCall
  \/ EnergyCorrectionNoArgCall
  \/ GenerateExchangeIntegrals
  \/ OptimizeAmplitudesCall
  \/ BeginCycle
  \/ LoopExit
  \/ SkipVeryDistant
  \/ BeginPair
  \/ \E w \in Workers, n \in pending : CouplingIteration(w, n)
  \/ EndParallel
  \/ MergeStep
  \/ UpdateAmplitudes
  \/ EndCycle
  \/ Return
  \/ CalculateEnergyCall

\* ------------------------------------------------------------------------
\* Specifications
\* ------------------------------------------------------------------------
FullList == <<<<0, 0>>, <<1, 0>>, <<1, 1>>>>

TypeChoices ==
  {[p \in Pairs |-> "CLOSE"],
   [p \in Pairs |-> IF p = <<1, 1>> THEN "VERY_DISTANT"
                    ELSE IF p = <<1, 0>> THEN "DISTANT" ELSE "CLOSE"],
   [p \in Pairs |-> IF p = <<1, 0>> THEN "VERY_DISTANT" ELSE "CLOSE"]}

Init ==
  /\ NoCollaborators
  /\ InitWith([entries |-> {"calculateEnergyCorrection",
                            "calculateEnergyCorrection()",
                            "optimizeAmplitudes"},
               lists |-> {FullList, <<<<1, 0>>, <<0, 0>>, <<1, 1>>>>},
               types |-> TypeChoices,
               integrals |-> {"zero", "asymmetric"},
               uncoupledTerms |-> {<<1, 2, 2, 1>>},
               fockOffDiagonals |-> {0, 1},
               fockCutoffs |-> {1},
               projectors |-> {<<<<1, 1, 0, 1>>, <<1, 1, 0, 1>>>>,
                               <<<<1, 1, 0, 1>>, <<1, 0, 1, 1>>>>},
               screened |-> {{}, {<<<<0, 0>>, 1, "kj">>}},
               maxResiduals |-> {0, InitialLargestResidual},
               maxCycles |-> 0 .. (MaxCyc + 1),
               diisStartResiduals |-> {0, KUnit * KUnit},
               scalings |-> {<<1, 1>>},
               couplingSets |-> {TRUE},
               threads |-> 1 .. MaxThreads])

Spec == Init /\ [][Next]_vars

\* Runs whose energies tell the scaling factors apart and whose residual can
\* meet maxResidual without being zero: uncoupledTerm is 1 everywhere, the
\* exchange integrals may be small, a pair list may hold a single pair and
\* the coupling map may be empty.
CoupledEnergyRuns ==
  [entries |-> {"calculateEnergyCorrection", "calculateEnergyCorrection()",
                "optimizeAmplitudes"},
   lists |-> {<<<<1, 0>>, <<0, 0>>, <<1, 1>>>>, <<<<0, 0>>>>, <<<<1, 0>>>>},
   types |-> {[p \in Pairs |-> "CLOSE"],
              [p \in Pairs |-> IF p = <<1, 1>> THEN "VERY_DISTANT"
                               ELSE "DISTANT"]},
   integrals |-> {"small", "mixed"},
   uncoupledTerms |-> {<<1, 1, 1, 1>>},
   fockOffDiagonals |-> {1},
   fockCutoffs |-> {1},
   projectors |-> {<<<<1, 1, 0, 1>>, <<1, 0, 1, 1>>>>},
   screened |-> {{}, {<<<<0, 0>>, 1, "kj">>, <<<<0, 0>>, 1, "ik">>}},
   maxResiduals |-> {0, InitialLargestResidual - 1},
   maxCycles |-> {1, MaxCyc + 1},
   diisStartResiduals |-> {0, KUnit * KUnit},
   scalings |-> {<<1, 1>>, <<2, 3>>},
   couplingSets |-> {TRUE, FALSE},
   threads |-> 1 .. MaxThreads]

\* Runs on a single pair without coupling sets whose uncoupledTerm is not 1
\* everywhere; maxResidual may be the value largestResidual starts with.
SinglePairRuns ==
  [entries |-> {"calculateEnergyCorrection", "calculateEnergyCorrection()",
                "optimizeAmplitudes"},
   lists |-> {<<<<0, 0>>>>, <<<<1, 0>>>>},
   types |-> {[p \in Pairs |-> "CLOSE"]},
   integrals |-> {"small", "mixed"},
   uncoupledTerms |-> {<<1, 2, 2, 1>>},
   fockOffDiagonals |-> {1},
   fockCutoffs |-> {1},
   projectors |-> {<<<<1, 1, 0, 1>>, <<1, 0, 1, 1>>>>},
   screened |-> {{}},
   maxResiduals |-> {0, InitialLargestResidual - 1, InitialLargestResidual},
   maxCycles |-> {1, MaxCyc + 1},
   diisStartResiduals |-> {0, KUnit * KUnit},
   scalings |-> {<<1, 1>>, <<2, 3>>},
   couplingSets |-> {FALSE},
   threads |-> 1 .. MaxThreads]

\* Runs whose second cycle meets maxResidual and triggers the accelerator
\* with a history of two snapshots while the amplitudes still move: a
\* negative Fock coupling, even exchange integrals and an uncoupledTerm of 2
\* (every quotient is exact), maxResidual just below the value
\* largestResidual starts with.
AcceleratedRuns ==
  [entries |-> {"calculateEnergyCorrection", "calculateEnergyCorrection()",
                "optimizeAmplitudes"},
   lists |-> {<<<<1, 0>>, <<0, 0>>>>},
   types |-> {[p \in Pairs |-> "CLOSE"]},
   integrals |-> {"even"},
   uncoupledTerms |-> {<<2, 2, 2, 2>>},
   fockOffDiagonals |-> {0 - 1},
   fockCutoffs |-> {1},
   projectors |-> {<<<<1, 1, 0, 1>>, <<1, 1, 0, 1>>>>},
   screened |-> {{}},
   maxResiduals |-> {InitialLargestResidual - 1},
   maxCycles |-> {MaxCyc + 1},
   diisStartResiduals |-> {KUnit * KUnit},
   scalings |-> {<<1, 1>>},
   couplingSets |-> {TRUE},
   threads |-> 1 .. MaxThreads]

InitEnergy ==
  /\ NoCollaborators
  /\ \/ InitWith(CoupledEnergyRuns)
     \/ InitWith(SinglePairRuns)
     \/ InitWith(AcceleratedRuns)

SpecEnergy == InitEnergy /\ [][Next]_vars

\* Every quotient the update forms is exact.
DivisionExact ==
  pc = "merge" =>
    MHad(MQuot(increments[0], uncoupledTerm[CurPair]), uncoupledTerm[CurPair])
      = increments[0]

\* ------------------------------------------------------------------------
\* Properties
\* ------------------------------------------------------------------------
\* The pairs of orbitalPairs the current cycle has already updated.
ProcessedInCycle(q) ==
  \E n \in 1 .. Len(orbitalPairs) :
    n < pairIdx /\ orbitalPairs[n] = q /\ ~SkipsPair(q)

\* The convergence metric of the cycle executed last: the largest absolute
\* residual element over the pairs whose residual the cycle computed.
MaxOver(S) ==
  IF S = {} THEN 0
  ELSE LET x == CHOOSE y \in S : \A z \in S : y >= z IN x

CycleMetric ==
  MaxOver({MaxAbsCoeff(cycleResidual[p]) :
             p \in {q \in Pairs : cycleResidual[q] # NoMat}})

\* C1: optimizeAmplitudes returns normally only after a cycle whose
\* convergence metric (largest absolute residual element over the optimized
\* pairs, computed in that cycle) does not exceed maxResidual.
C1_ReturnsOnlyAfterConvergedCycle ==
  pc \in {"converged", "done"} =>
    /\ cycle >= 1
    /\ largestResidual = CycleMetric
    /\ CycleMetric <= settings.maxResidual

\* C2: a metric still above maxResidual after maxCycles cycles raises the
\* error, the error leaves no 3-vector behind, and a 3-vector is returned
\* only by a converged optimization.
C2_ErrorOrConvergedVector ==
  /\ (pc = "while" /\ cycle >= 1 /\ cycle >= settings.maxCycles
        => ~LoopContinues)
  /\ (pc = "error" => energies = NoVec)
  /\ (energies # NoVec =>
        cycle >= 1 /\ CycleMetric <= settings.maxResidual)

\* C3: the error is raised only when the metric has not met maxResidual: a
\* run whose metric is at or below maxResidual in a cycle c <= maxCycles
\* raises no error.
C3_ErrorOnlyWhenNotConverged ==
  pc = "error" => largestResidual > settings.maxResidual

\* C4 as stated: every read of a companion pair's amplitudes observes the
\* value the companion had at the end of the previous cycle.
C4_ReadsPreviousCycle ==
  pc \in {"parallel", "merge"} =>
    \A r \in reads : r.stored = cycleStart[r.pair]

\* C4 as amended: a read observes the companion's stored value at the time of
\* the read, which is the value of the end of the previous cycle for a
\* companion the cycle has not yet processed, and the value this cycle's
\* update has written for a companion that precedes the reader in the list;
\* no amplitude changes while the coupling sum of a pair runs.
C4_ReadsCurrentValue ==
  pc \in {"parallel", "merge"} =>
    \A r \in reads :
      /\ r.stored = t_ij[r.pair]
      /\ r.stored =
           IF ProcessedInCycle(r.pair)
             THEN MSub(cycleStart[r.pair],
                       MQuot(cycleResidual[r.pair], uncoupledTerm[r.pair]))
             ELSE cycleStart[r.pair]

C4_Witness ==
  /\ pc = "parallel"
  /\ \E r \in reads :
       ProcessedInCycle(r.pair) /\ r.stored # cycleStart[r.pair]

\* C5 as stated: the stored matrix is used unchanged when the requested
\* order has first index <= second index, and transposed otherwise.
C5_UnchangedWhenFirstNotGreater ==
  \A r \in reads :
    r.used = IF r.wanted[1] <= r.wanted[2] THEN r.stored ELSE MT(r.stored)

\* C5 as amended: only pairs with first index >= second index are stored;
\* the amplitudes of the ordered index pair (k,j) or (i,k) are the stored
\* matrix of that pair unchanged when the requested order has first index
\* >= second index, and its transpose when the requested order is reversed.
C5_UnchangedWhenFirstNotSmaller ==
  \A r \in reads :
    /\ r.pair[1] >= r.pair[2]
    /\ r.pair = StoredPair(r.wanted[1], r.wanted[2])
    /\ r.used = IF r.wanted[1] >= r.wanted[2] THEN r.stored ELSE MT(r.stored)

C5_Witness ==
  \E r \in reads :
    r.wanted[1] < r.wanted[2] /\ r.stored # MT(r.stored) /\ r.used = MT(r.stored)

\* C6: a VERY_DISTANT pair never enters the optimization: the entry point
\* puts it in the very-distant list only, the pair loop skips it, no step
\* changes its amplitudes or its residual, and the cycle computes no
\* residual for it.
C6_VeryDistantUntouched ==
  /\ [](\A p \in Pairs :
          type[p] = "VERY_DISTANT" =>
            /\ cycleResidual[p] = NoMat
            /\ (entry = "calculateEnergyCorrection" /\ pc # "start" =>
                  /\ ~InList(p, orbitalPairs)
                  /\ InList(p, veryDistantPairs) = InList(p, inputPairs)))
  /\ [][\A p \in Pairs :
          type[p] = "VERY_DISTANT" =>
            t_ij'[p] = t_ij[p] /\ residual'[p] = residual[p]]_vars

C6_Witness ==
  /\ pc = "done"
  /\ cycle >= 2
  /\ \E p \in Pairs :
       /\ type[p] = "VERY_DISTANT"
       /\ InList(p, orbitalPairs)
       /\ k_ij[p] # ZeroM
       /\ settings.diisStartResidual > largestResidual

\* An iteration of the parallel loop has been executed by this step.
IterationStep == pc = "parallel" /\ pending' # pending

\* C7: a coupling set whose companion pair is absent contributes zero for
\* that companion and raises no error; the term of the other companion is
\* applied as usual.
C7_AbsentCompanionContributesZero ==
  [][IterationStep =>
       LET cs == coupledPairs[CurPair][index']
           delta == MSub(increments'[threadId'], increments[threadId'])
           kjPart == IF KJActive(CurPair, cs)
                       THEN KJTerm(CurPair, cs) ELSE ZeroM
           ikPart == IF IKActive(CurPair, cs)
                       THEN IKTerm(CurPair, cs) ELSE ZeroM
       IN  /\ pc' = "parallel"
           /\ cs.kjPair = NoPair => delta = MSub(ZeroM, ikPart)
           /\ cs.ikPair = NoPair => delta = MSub(ZeroM, kjPart)]_vars

C7_Witness ==
  /\ pc = "parallel"
  /\ index \in 1 .. Len(coupledPairs[CurPair])
  /\ index \notin pending
  /\ coupledPairs[CurPair][index].kjPair = NoPair
  /\ \E r \in reads : r.term = "ik" /\ r.used # ZeroM
  /\ increments[threadId] # InitialIncrements(CurPair)[threadId]

\* The residual of pair p as one worker computes it.
SerialResidual(p) ==
  MSub(LocalResidual(p),
       LET terms == [n \in 1 .. Len(coupledPairs[p]) |->
                       IterationTerms(p, coupledPairs[p][n])]
       IN  <<SeqSum([n \in 1 .. Len(terms) |-> terms[n][1]]),
             SeqSum([n \in 1 .. Len(terms) |-> terms[n][2]]),
             SeqSum([n \in 1 .. Len(terms) |-> terms[n][3]]),
             SeqSum([n \in 1 .. Len(terms) |-> terms[n][4]])>>)

\* C8: a worker writes only the accumulator of its own id; accumulator 0
\* starts as the local residual and the others as zero; one thread adds the
\* accumulators 1..n-1 to accumulator 0 in ascending order; the merged
\* residual is the residual a single worker computes.
C8_PrivateAccumulatorsMergedInOrder ==
  /\ [](pc = "merge" /\ inc >= nThreads =>
          increments[0] = SerialResidual(CurPair))
  /\ [][/\ IterationStep =>
             \A v \in Workers \ {threadId'} : increments'[v] = increments[v]
        /\ pc = "pair" /\ pc' = "parallel" =>
             \A v \in Workers :
               increments'[v] =
                 IF v = 0 THEN LocalResidual(CurPair) ELSE ZeroM
        /\ pc = "parallel" /\ pc' = "merge" =>
             inc' = 1 /\ increments' = increments
        /\ pc = "merge" /\ pc' = "merge" =>
             /\ inc' = inc + 1
             /\ increments'[0] = MAdd(increments[0], increments[inc])
             /\ \A v \in Workers \ {0} : increments'[v] = increments[v]]_vars

C8_Witness ==
  /\ pc = "merge"
  /\ inc >= nThreads
  /\ nThreads >= 2
  /\ increments[1] # ZeroM
  /\ increments[0] # LocalResidual(CurPair)

C10_EnergyIdempotent ==
  [][pc = "done" /\ nEnergyCalls' # nEnergyCalls =>
       energies' = energies /\ lMP2PairEnergy' = lMP2PairEnergy]_vars

C10_Witness ==
  /\ pc = "done"
  /\ nEnergyCalls >= 1
  /\ energies # NoVec
  /\ energies[1] # 0
  /\ energies[2] # 0

\* A step in which calculateEnergy(orbitalPairs, veryDistantPairs) is the
\* only statement that can touch a pair: the call in generateExchangeIntegrals,
\* the call at the end of a cycle whose accelerator is not started, the call
\* of the entry point after the loop and a call by the caller after that.
EnergyEvaluationStep ==
  \/ pc = "integrals" /\ pc' = "while"
  \/ /\ pc = "pair"
     /\ cycle' = cycle + 1
     /\ ~(settings.diisStartResidual > largestResidual)
  \/ pc = "converged" /\ pc' = "done" /\ ReturnsEnergies
  \/ pc = "done" /\ nEnergyCalls' = nEnergyCalls + 1

\* C11: a call of calculateEnergy leaves the amplitudes, the exchange
\* integrals, the residual, uncoupledTerm, deltaPNO, the type and the
\* coupling sets of every pair as they were, and so the two energies a very
\* distant pair contributes; the only field it writes is the pair energy
\* lMP2PairEnergy, and only of the pairs of its close-pair list.
C11_EnergyWritesOnlyPairEnergy ==
  [][EnergyEvaluationStep =>
       /\ UNCHANGED <<t_ij, k_ij, residual, uncoupledTerm, deltaPNO, type,
                      coupledPairs, scMP2PairEnergy, dipolePairEnergy>>
       /\ \A p \in Pairs :
            lMP2PairEnergy'[p] # lMP2PairEnergy[p] =>
              InList(p, orbitalPairs)]_vars

\* The entry point has evaluated the energy of non-zero amplitudes, and a
\* pair outside the close-pair list still has the pair energy it started with.
C11_Witness ==
  /\ pc = "done"
  /\ ReturnsEnergies
  /\ \E p \in Pairs :
       /\ InList(p, orbitalPairs)
       /\ t_ij[p] # ZeroM
       /\ lMP2PairEnergy[p] # 0
  /\ \E q \in Pairs : ~InList(q, orbitalPairs) /\ lMP2PairEnergy[q] = 0

\* C12: the pair energy calculateEnergy stores for a pair (i, j) of its
\* close-pair list is ssScaling * f * sum((t - t^T) (*) k) + osScaling * f *
\* sum(t (*) k) + deltaPNO with f = 2 for i # j and f = 1 for i = j, written
\* out here element by element.
C12_StoredPairEnergyFormula ==
  [][EnergyEvaluationStep =>
       \A p \in Pairs :
         InList(p, orbitalPairs) =>
           LET t == t_ij[p]
               k == k_ij[p]
               f == IF p[1] # p[2] THEN 2 ELSE 1
               sameSpin == (t[1] - t[1]) * k[1] + (t[2] - t[3]) * k[2]
                           + (t[3] - t[2]) * k[3] + (t[4] - t[4]) * k[4]
               oppositeSpin == t[1] * k[1] + t[2] * k[2] + t[3] * k[3]
                               + t[4] * k[4]
           IN  lMP2PairEnergy'[p] =
                 settings.ssScaling * f * sameSpin
                 + settings.osScaling * f * oppositeSpin + deltaPNO[p]]_vars

\* An entry point has returned the energies of a list that holds a diagonal
\* pair and an off-diagonal pair with a same-spin energy, the two scaling
\* factors being different.
C12_Witness ==
  /\ pc = "done"
  /\ ReturnsEnergies
  /\ settings.ssScaling # settings.osScaling
  /\ \E p \in Pairs :
       /\ InList(p, orbitalPairs)
       /\ p[1] # p[2]
       /\ SSEnergy(p) # 0
       /\ SSEnergy(p) # OSEnergy(p)
       /\ lMP2PairEnergy[p] = StoredPairEnergy(p)
  /\ \E q \in Pairs :
       InList(q, orbitalPairs) /\ q[1] = q[2] /\ OSEnergy(q) # 0

\* What a pair of the input list adds to the second component, and to the
\* first and the third one, of the vector an entry point returns.
VeryDistantPart(p) ==
  IF InList(p, inputPairs) /\ type[p] = "VERY_DISTANT"
    THEN IF scMP2PairEnergy[p] # 0 THEN scMP2PairEnergy[p]
         ELSE dipolePairEnergy[p]
    ELSE 0

OptimizedPart(p, value) ==
  IF InList(p, inputPairs) /\ type[p] # "VERY_DISTANT" THEN value ELSE 0

\* C13: the second component of the vector calculateEnergy returns is the
\* sum over the very distant pairs of scMP2PairEnergy where that is not zero
\* and of dipolePairEnergy where it is, one of the two per pair; a very
\* distant pair adds nothing to the first and the third component.
C13_DipoleComponent ==
  pc = "done" /\ ReturnsEnergies =>
    /\ energies[2] = VeryDistantPart(<<0, 0>>) + VeryDistantPart(<<1, 0>>)
                     + VeryDistantPart(<<1, 1>>)
    /\ energies[1] = OptimizedPart(<<0, 0>>, PairEnergy(<<0, 0>>))
                     + OptimizedPart(<<1, 0>>, PairEnergy(<<1, 0>>))
                     + OptimizedPart(<<1, 1>>, PairEnergy(<<1, 1>>))
    /\ energies[3] = OptimizedPart(<<0, 0>>, deltaPNO[<<0, 0>>])
                     + OptimizedPart(<<1, 0>>, deltaPNO[<<1, 0>>])
                     + OptimizedPart(<<1, 1>>, deltaPNO[<<1, 1>>])

\* The vector returned counts a very distant pair whose scMP2PairEnergy is
\* zero with its dipolePairEnergy, the other pairs having amplitudes.
C13_Witness ==
  /\ pc = "done"
  /\ ReturnsEnergies
  /\ \E p \in Pairs :
       /\ type[p] = "VERY_DISTANT"
       /\ scMP2PairEnergy[p] = 0
       /\ dipolePairEnergy[p] # 0
       /\ veryDistantPairs = <<p>>
       /\ energies[2] = dipolePairEnergy[p]
  /\ energies[1] # 0

\* How often a pair occurs in a list.
Count(p, list) == Cardinality({n \in 1 .. Len(list) : list[n] = p})

\* C14: calculateEnergyCorrection(pairs) puts every pair of its list in
\* exactly one of the two working lists, as often as the list holds it: a
\* VERY_DISTANT pair in veryDistantPairs, a CLOSE or DISTANT pair in the
\* optimized list. calculateEnergyCorrection() optimizes the CLOSE pairs of
\* the controller followed by its DISTANT pairs, each once, and that list
\* shares no pair with veryDistantPairs.
C14_TierPartition ==
  /\ entry = "calculateEnergyCorrection" /\ pc # "start" =>
       \A p \in Pairs :
         /\ Count(p, orbitalPairs) + Count(p, veryDistantPairs)
              = Count(p, inputPairs)
         /\ Count(p, veryDistantPairs) =
              (IF type[p] = "VERY_DISTANT" THEN Count(p, inputPairs) ELSE 0)
  /\ entry = "calculateEnergyCorrection()" /\ pc # "start" =>
       /\ \E n \in 0 .. Len(orbitalPairs) :
            \A m \in 1 .. Len(orbitalPairs) :
              type[orbitalPairs[m]] = (IF m <= n THEN "CLOSE" ELSE "DISTANT")
       /\ \A p \in Pairs :
            /\ type[p] \in {"CLOSE", "DISTANT"} =>
                 Count(p, orbitalPairs) = Count(p, inputPairs)
            /\ ~(InList(p, orbitalPairs) /\ InList(p, veryDistantPairs))
       /\ \A m \in 1 .. Len(veryDistantPairs) :
            type[veryDistantPairs[m]] = "VERY_DISTANT"

\* calculateEnergyCorrection(pairs) has split a list that holds a pair of
\* every tier and has returned.
C14_Witness ==
  /\ entry = "calculateEnergyCorrection"
  /\ pc = "done"
  /\ \E p, q, r \in Pairs :
       /\ type[p] = "CLOSE" /\ type[q] = "DISTANT"
       /\ type[r] = "VERY_DISTANT"
       /\ InList(p, orbitalPairs) /\ InList(q, orbitalPairs)
       /\ veryDistantPairs = <<r>>
       /\ Len(orbitalPairs) = 2

\* The positions of optimizeAmplitudes from the first loop test to the
\* normal end of the loop or the throw.
InLoop == pc \in {"while", "pair", "parallel", "merge"}

\* C16: no step of the loop of optimizeAmplitudes changes uncoupledTerm, the
\* exchange integrals k_ij, the type or deltaPNO of a pair, so all four have
\* at every point of the loop the value they had at loop entry; the coupling
\* sets and the energies of the very distant pairs are not written either,
\* which leaves the amplitudes, the residual and the pair energies.
C16_LoopLeavesInputsUnchanged ==
  [][InLoop =>
       /\ UNCHANGED <<uncoupledTerm, k_ij, type, deltaPNO>>
       /\ UNCHANGED <<coupledPairs, scMP2PairEnergy, dipolePairEnergy>>]_vars

\* Two cycles have run and have changed amplitudes, residual and pair
\* energies of a pair whose exchange integrals are not zero.
C16_Witness ==
  /\ pc = "while"
  /\ cycle >= 2
  /\ \E p \in Pairs :
       /\ InList(p, orbitalPairs)
       /\ k_ij[p] # ZeroM
       /\ t_ij[p] # ZeroM
       /\ residual[p] # ZeroM
       /\ lMP2PairEnergy[p] # 0
       /\ cycleResidual[p] # NoMat
       /\ cycleResidual[p] # k_ij[p]

\* C17 as claimed: the error raised when the loop does not converge carries
\* the number of cycles executed and the last largest residual.
C17_ErrorCarriesCyclesAndResidual ==
  pc = "error" =>
    /\ "cycles" \in DOMAIN thrown
    /\ thrown.cycles = cycle
    /\ "residual" \in DOMAIN thrown
    /\ thrown.residual = largestResidual

\* C17: the error raised when the loop does not converge carries the number
\* of cycles executed and nothing else; the last largest residual is in the
\* line of the cycle table printed for that cycle before the throw. No error
\* is there at any other position.
C17_ErrorCarriesCycles ==
  /\ pc = "error" =>
       /\ thrown = [cycles |-> cycle]
       /\ printed # NoLine
       /\ printed.cycle = cycle
       /\ printed.residual = largestResidual
  /\ pc # "error" => thrown = NoError

\* The error has been thrown after two cycles whose last residual is not 0.
C17_Witness ==
  /\ pc = "error"
  /\ cycle = 2
  /\ largestResidual > 0
  /\ thrown # NoError

\* C18: when an entry point calculateEnergyCorrection has returned, the
\* vector it returned and the pair energy stored for every pair it optimized
\* are those of an evaluation of the amplitudes as the loop left them, after
\* the update of the last cycle and after what the accelerator wrote in that
\* cycle; the stages were entered in the order integral generation (entry
\* point without arguments only), optimization, energy evaluation.
C18_EnergiesEvaluatedAfterLoop ==
  pc = "done" /\ ReturnsEnergies =>
    /\ energies = EnergyVector(orbitalPairs, veryDistantPairs)
    /\ \A p \in Pairs :
         InList(p, orbitalPairs) => lMP2PairEnergy[p] = StoredPairEnergy(p)
    /\ stages =
         IF entry = "calculateEnergyCorrection()"
           THEN <<"generateExchangeIntegrals", "optimizeAmplitudes",
                  "calculateEnergy">>
           ELSE <<"optimizeAmplitudes", "calculateEnergy">>

\* The entry point without arguments has returned after a converged cycle in
\* which the accelerator replaced the amplitudes it had stored; the energy
\* returned is not the one the last cycle printed.
C18_Witness ==
  /\ pc = "done"
  /\ entry = "calculateEnergyCorrection()"
  /\ nEnergyCalls = 0
  /\ cycle >= 2
  /\ diis # <<>>
  /\ t_ij # diis[Len(diis)]
  /\ printed.energy # SeqSum(energies)

\* The run is on a list of one pair that has no coupling sets.
SinglePairNoCoupling ==
  /\ Len(inputPairs) = 1
  /\ coupledPairs[inputPairs[1]] = <<>>

\* k_ij / uncoupledTerm of the single pair, element by element.
IntegralsOverUncoupled ==
  MQuot(k_ij[inputPairs[1]], uncoupledTerm[inputPairs[1]])

\* f * sum(k (*) k / u) and f * sum((k / u - (k / u)^T) (*) k) of the pair.
DirectOppositeSpin ==
  PairFactor(inputPairs[1])
  * MSum(MHad(k_ij[inputPairs[1]], IntegralsOverUncoupled))

DirectSameSpin ==
  PairFactor(inputPairs[1])
  * MSum(MHad(MSub(IntegralsOverUncoupled, MT(IntegralsOverUncoupled)),
              k_ij[inputPairs[1]]))

\* C15 as claimed: after a normal return of a run on a single pair without
\* coupling sets, started from zero amplitudes and converged in a cycle, the
\* pair energy is osScaling * sum(k (*) k / uncoupledTerm), times f, plus the
\* same-spin energy times ssScaling.
C15_ZeroCouplingEnergyAsClaimed ==
  pc = "done" /\ SinglePairNoCoupling /\ cycle >= 1 =>
    PairEnergy(inputPairs[1]) =
      settings.osScaling * DirectOppositeSpin
      + settings.ssScaling * SSEnergy(inputPairs[1])

\* C15: after a normal return of a run on a single pair without coupling
\* sets, started from zero amplitudes, the amplitudes are -k / uncoupledTerm
\* and the pair energy is -osScaling * f * sum(k (*) k / u) - ssScaling * f *
\* sum((k / u - (k / u)^T) (*) k) when at least one cycle ran, and the
\* amplitudes and the pair energy are zero when none ran; an entry point
\* that returns energies returns this as the first component and stores it
\* plus deltaPNO.
C15_ZeroCouplingEnergy ==
  pc = "done" /\ SinglePairNoCoupling =>
    LET p == inputPairs[1]
        direct == IF cycle >= 1
                    THEN -(settings.osScaling * DirectOppositeSpin)
                         - settings.ssScaling * DirectSameSpin
                    ELSE 0
    IN  /\ t_ij[p] = IF cycle >= 1 THEN MScale(-1, IntegralsOverUncoupled)
                      ELSE ZeroM
        /\ PairEnergy(p) = direct
        /\ ReturnsEnergies =>
             /\ energies[1] = direct
             /\ lMP2PairEnergy[p] = direct + deltaPNO[p]

\* A run on the single pair (1, 0) without coupling sets has returned after
\* two cycles; its same-spin and opposite-spin energies are not zero, its
\* uncoupledTerm is not 1 everywhere and the scaling factors differ.
C15_Witness ==
  /\ pc = "done"
  /\ SinglePairNoCoupling
  /\ ReturnsEnergies
  /\ cycle = 2
  /\ inputPairs = <<<<1, 0>>>>
  /\ uncoupledTerm[<<1, 0>>] = <<1, 2, 2, 1>>
  /\ settings.ssScaling # settings.osScaling
  /\ DirectSameSpin # 0
  /\ energies[1] < 0

\* ------------------------------------------------------------------------
\* OrbitalController: the selection of the core orbitals
\* ------------------------------------------------------------------------
\* std::numeric_limits<double>::infinity(), a value above every other
\* eigenvalue and every cut-off of the model.
Infinity == 1000

Spins == {"alpha", "beta"}

\* The eigenvalues an orbital can have and the cut-offs a caller passes.
EigenvalueChoices == {-20, -7, -1, Infinity}

CutOffChoices == {-30, -7, -5, 0}

\* eps.minCoeff(&minIndex): the first index of the smallest coefficient.
MinIndex(eps) ==
  CHOOSE i \in 1 .. Len(eps) :
    /\ \A j \in 1 .. Len(eps) : eps[i] <= eps[j]
    /\ \A j \in 1 .. (i - 1) : eps[j] > eps[i]

\* The loop over iCore of getCoreOrbitalsByEigenvalue with `left` passes to
\* go: the smallest eigenvalue is set to infinity and its orbital flagged.
RECURSIVE MarkLowest(_, _, _)
MarkLowest(eps, flags, left) ==
  IF left = 0 THEN flags
  ELSE MarkLowest([eps EXCEPT ![MinIndex(eps)] = Infinity],
                  [flags EXCEPT ![MinIndex(eps)] = 1], left - 1)

\* getCoreOrbitalsByEigenvalue(nCoreElectrons, eigenvalues)
GetCoreOrbitalsByEigenvalue(nCoreElectrons, eigs) ==
  [s \in Spins |->
     MarkLowest(eigs[s], [i \in 1 .. Len(eigs[s]) |-> 0],
                nCoreElectrons \div 2)]

\* Mutant of CoreOrbitalsBelow: an eigenvalue equal to the cut-off counts.
CoreOrbitalsNotAbove(eps, energyCutOff) ==
  [i \in 1 .. Len(eps) |-> IF eps[i] <= energyCutOff THEN 1 ELSE 0]

\* isCoreOrbital_spin.setZero(), then the loop over iOrb of
\* setCoreOrbitalsByEnergyCutOff.
CoreOrbitalsBelow(eps, energyCutOff) ==
  [i \in 1 .. Len(eps) |-> IF eps[i] < energyCutOff THEN 1 ELSE 0]

\* Eigenvalues as an eigensolver leaves them: all equal, ascending, and
\* ascending with infinity for the columns removed from a linearly dependent
\* basis.
SolverEigenvalues ==
  {[i \in 1 .. NOrb |-> -20], [i \in 1 .. NOrb |-> 3 * i - 20],
   [i \in 1 .. NOrb |-> IF i = 1 THEN -7 ELSE Infinity]}

\* A controller as its constructor leaves it: eigenvalues and flags are the
\* caller's, one of each per basis function and spin.
ControllerConstructed ==
  /\ \E a \in [1 .. NOrb -> EigenvalueChoices], b \in SolverEigenvalues :
       eigenvalues = [s \in Spins |-> IF s = "alpha" THEN a ELSE b]
  /\ \E b \in {0, 1} :
       isCoreOrbital = [s \in Spins |-> [i \in 1 .. NOrb |-> b]]
  /\ lastCall = NoCall
  /\ nCalls = 0

\* setCoreOrbitalsByNumber(nCoreOrbitals)
SetCoreOrbitalsByNumber(nCoreOrbitals) ==
  /\ nCalls < MaxCalls
  /\ isCoreOrbital' =
       GetCoreOrbitalsByEigenvalue(nCoreOrbitals * 2, eigenvalues)
  /\ lastCall' = [op |-> "setCoreOrbitalsByNumber", arg |-> nCoreOrbitals,
                  before |-> isCoreOrbital]
  /\ nCalls' = nCalls + 1
  /\ UNCHANGED <<localMP2, eigenvalues, transformation, integralController,
                 lrscfController>>

\* setCoreOrbitalsByEnergyCutOff(energyCutOff)
SetCoreOrbitalsByEnergyCutOff(energyCutOff) ==
  /\ nCalls < MaxCalls
  /\ isCoreOrbital' =
       [s \in Spins |-> CoreOrbitalsBelow(eigenvalues[s], energyCutOff)]
  /\ lastCall' = [op |-> "setCoreOrbitalsByEnergyCutOff",
                  arg |-> energyCutOff, before |-> isCoreOrbital]
  /\ nCalls' = nCalls + 1
  /\ UNCHANGED <<localMP2, eigenvalues, transformation, integralController,
                 lrscfController>>

NextOrbitals ==
  \/ \E n \in 0 .. (NOrb + 1) : SetCoreOrbitalsByNumber(n)
  \/ \E c \in CutOffChoices : SetCoreOrbitalsByEnergyCutOff(c)

\* The one run of LocalMP2 that waits, not started, beside the controller.
OneRun ==
  [entries |-> {"optimizeAmplitudes"},
   lists |-> {FullList},
   types |-> {[p \in Pairs |-> "CLOSE"]},
   integrals |-> {"zero"},
   uncoupledTerms |-> {<<1, 1, 1, 1>>},
   fockOffDiagonals |-> {0},
   fockCutoffs |-> {1},
   projectors |-> {<<<<1, 1, 0, 1>>, <<1, 1, 0, 1>>>>},
   screened |-> {{}},
   maxResiduals |-> {0},
   maxCycles |-> {1},
   diisStartResiduals |-> {0},
   scalings |-> {<<1, 1>>},
   couplingSets |-> {TRUE},
   threads |-> {1}]

InitOrbitals ==
  /\ ControllerConstructed
  /\ NoTransformation
  /\ NoIntegralController
  /\ NoLRSCFController
  /\ InitWith(OneRun)

SpecOrbitals == InitOrbitals /\ [][NextOrbitals]_vars

\* getCoreOrbitals() of one spin, summed.
NCore(flags) == SeqSum(flags)

\* C19: after setCoreOrbitalsByNumber(n) with n not above the number of
\* orbitals, n orbitals of every spin are flagged as core, no orbital that
\* is not flagged has an eigenvalue below that of a flagged one, and the
\* flags do not depend on the selection made before.
C19_ExactlyNLowestAreCore ==
  lastCall # NoCall /\ lastCall.op = "setCoreOrbitalsByNumber"
    /\ lastCall.arg <= NOrb =>
    \A s \in Spins :
      /\ NCore(isCoreOrbital[s]) = lastCall.arg
      /\ \A i, j \in 1 .. NOrb :
           isCoreOrbital[s][i] = 1 /\ isCoreOrbital[s][j] = 0 =>
             eigenvalues[s][i] <= eigenvalues[s][j]

\* C20: after setCoreOrbitalsByEnergyCutOff(c) an orbital is flagged as core
\* exactly if its eigenvalue is below c and not equal to it, whatever was
\* flagged before; a call with a cut-off not above that of the call before
\* it flags no more orbitals of a spin than that call did.
C20_CoreIffBelowCutOff ==
  /\ [](lastCall # NoCall /\ lastCall.op = "setCoreOrbitalsByEnergyCutOff" =>
          \A s \in Spins : \A i \in 1 .. NOrb :
            /\ isCoreOrbital[s][i] \in {0, 1}
            /\ isCoreOrbital[s][i] = 1 <=> eigenvalues[s][i] < lastCall.arg)
  /\ [][/\ lastCall # NoCall
         /\ lastCall.op = "setCoreOrbitalsByEnergyCutOff"
         /\ lastCall'.op = "setCoreOrbitalsByEnergyCutOff"
         /\ lastCall'.arg <= lastCall.arg
         => \A s \in Spins :
              NCore(isCoreOrbital'[s]) <= NCore(isCoreOrbital[s])]_vars

\* setCoreOrbitalsByEnergyCutOff has run on a controller one of whose
\* eigenvalues equals the cut-off, after a call that had flagged an orbital
\* which is not below the cut-off; the call took that flag away and left
\* another orbital flagged.
C20_Witness ==
  /\ lastCall # NoCall
  /\ lastCall.op = "setCoreOrbitalsByEnergyCutOff"
  /\ nCalls = 2
  /\ \E s \in Spins :
       /\ \E i \in 1 .. NOrb : eigenvalues[s][i] = lastCall.arg
       /\ \E i \in 1 .. NOrb :
            lastCall.before[s][i] = 1 /\ isCoreOrbital[s][i] = 0
       /\ \E i \in 1 .. NOrb : isCoreOrbital[s][i] = 1

\* C22: after a pair has been processed in a cycle, the residual field the
\* pair stores holds the residual of that cycle, the matrix the amplitudes
\* were updated with and the convergence metric was computed from.
C22_StoredResidualIsCycleResidual ==
  \A p \in Pairs :
    cycleResidual[p] # NoMat => residual[p] = cycleResidual[p]

\* C23: the term of the companion (k,j) is subtracted if and only if the
\* companion is present, |F(i,k)| exceeds the prescreening cutoff and k # i;
\* the term of the companion (i,k) if and only if the companion is present,
\* |F(j,k)| exceeds the cutoff and k # j; a Fock element whose magnitude does
\* not exceed the cutoff contributes nothing.
C23_TermsOnlyAboveCutoff ==
  [][IterationStep =>
       LET p == CurPair
           cs == coupledPairs[p][index']
           delta == MSub(increments'[threadId'], increments[threadId'])
           kjPart == IF /\ cs.kjPair # NoPair
                        /\ Abs(f_MO[<<p[1], cs.k>>]) > settings.f_cut
                        /\ cs.k # p[1]
                       THEN KJTerm(p, cs) ELSE ZeroM
           ikPart == IF /\ cs.ikPair # NoPair
                        /\ Abs(f_MO[<<p[2], cs.k>>]) > settings.f_cut
                        /\ cs.k # p[2]
                       THEN IKTerm(p, cs) ELSE ZeroM
       IN  delta = MSub(ZeroM, MAdd(kjPart, ikPart))]_vars

\* The step that ends a cycle: ++cycle, the energy, the accelerator, the
\* line of the cycle table and the cycle cap.
CycleEndStep == pc = "pair" /\ pc' \in {"while", "error"}

\* C24 as stated: the accelerator is invoked before the energy is
\* recomputed, so the energy reported for a cycle is the energy of the
\* amplitudes the cycle leaves behind.
C24_EnergyOfAmplitudesLeftBehind ==
  pc = "while" /\ printed # NoLine =>
    printed.energy = SeqSum(EnergyVector(orbitalPairs, veryDistantPairs))

\* C24: within each cycle the total correlation energy is recomputed before
\* the accelerator is invoked, so the energy and the delta reported for a
\* cycle are those of the amplitudes the pair updates of the cycle left,
\* before the accelerator wrote any amplitudes in that cycle.
C24_EnergyBeforeAccelerator ==
  [][CycleEndStep =>
       LET e == SeqSum(EnergyVector(orbitalPairs, veryDistantPairs))
       IN  /\ newEnergy' = e
           /\ printed'.energy = e
           /\ printed'.delta = oldEnergy - e
           /\ printed'.cycle = cycle + 1
           /\ settings.diisStartResidual > largestResidual =>
                diis' = DiisStored
           /\ ~(settings.diisStartResidual > largestResidual) =>
                diis' = diis /\ t_ij' = t_ij]_vars

\* A cycle has ended in which the accelerator replaced the amplitudes it had
\* stored, and the energy in the cycle's line is not the energy of the
\* amplitudes the cycle left behind.
C24_Witness ==
  /\ pc = "while"
  /\ printed # NoLine
  /\ diis # <<>>
  /\ t_ij # diis[Len(diis)]
  /\ printed.energy # SeqSum(EnergyVector(orbitalPairs, veryDistantPairs))

\* C25: in the coupling sum of pair (i,j) the pair whose amplitudes are read
\* is never (i,j) itself: the guard k # i of the (k,j) term and the guard
\* k # j of the (i,k) term exclude every k whose companion is the pair, for
\* i = j as well as for i # j.
C25_CouplingNeverReadsOwnPair ==
  /\ [](pc = "parallel" => \A r \in reads : r.pair # CurPair)
  /\ [][IterationStep =>
          LET p == CurPair
              cs == coupledPairs[p][index']
          IN  /\ StoredPair(cs.k, p[2]) = p =>
                  \A r \in reads' : r.term # "kj"
              /\ StoredPair(p[1], cs.k) = p =>
                  \A r \in reads' : r.term # "ik"]_vars

\* An iteration has run for the k that makes the (k,j) companion of the
\* pair the pair itself: the companion is present, the Fock element passes
\* the prescreening and the pair's own amplitudes are not zero.
C25_Witness ==
  /\ pc = "parallel"
  /\ index \in 1 .. Len(coupledPairs[CurPair])
  /\ index \notin pending
  /\ t_ij[CurPair] # ZeroM
  /\ LET cs == coupledPairs[CurPair][index]
     IN  /\ cs.kjPair = CurPair
         /\ Abs(f_MO[<<CurPair[1], cs.k>>]) >= settings.f_cut
         /\ cs.k = CurPair[1]

\* The matrix a is symmetric.
Symmetric(a) == a = MT(a)

\* The premises of the symmetry of a diagonal pair p: symmetric exchange
\* integrals and uncoupled term, a symmetric occupied Fock block, equal
\* overlap projectors in each of its coupling sets, both terms of a coupling
\* set reading the same stored pair, and an accelerator that has not been
\* triggered.
DiagonalPairPremises(p) ==
  /\ p[1] = p[2]
  /\ InList(p, orbitalPairs)
  /\ Symmetric(k_ij[p])
  /\ Symmetric(uncoupledTerm[p])
  /\ \A a \in Occ : \A b \in Occ : f_MO[<<a, b>>] = f_MO[<<b, a>>]
  /\ \A n \in 1 .. Len(coupledPairs[p]) :
       /\ coupledPairs[p][n].s_ij_kj = coupledPairs[p][n].s_ij_ik
       /\ coupledPairs[p][n].kjPair = coupledPairs[p][n].ikPair
  /\ diis = <<>>

ResidualOfAmplitudesNow ==
  MaxOver({MaxAbsCoeff(SerialResidual(p)) :
             p \in {q \in Pairs : InList(q, orbitalPairs) /\ ~SkipsPair(q)}})

\* C27: the convergence decision of a cycle is taken on residuals computed
\* from the amplitudes before that cycle's update of the pair; the end of a
\* cycle measures nothing again and invokes the accelerator whenever
\* diisStartResidual > largestResidual, in the converging cycle too; the
\* loop then exits on the metric of the cycle with the amplitudes the
\* accelerator left.
C27_ConvergenceDecidedBeforeAccelerator ==
  /\ [][pc = "merge" /\ pc' = "pair" =>
          /\ cycleResidual'[CurPair] = SerialResidual(CurPair)
          /\ largestResidual' =
               Max2(largestResidual, MaxAbsCoeff(SerialResidual(CurPair)))]_vars
  /\ [][CycleEndStep =>
          /\ largestResidual' = largestResidual
          /\ settings.diisStartResidual > largestResidual =>
               diis' = DiisStored /\ t_ij' \in DiisOutcomes(diis', orbitalPairs)]_vars
  /\ [][pc = "while" /\ pc' = "converged" =>
          /\ largestResidual <= settings.maxResidual
          /\ largestResidual' = largestResidual
          /\ t_ij' = t_ij]_vars
  /\ [](pc = "converged" /\ cycle >= 1 => largestResidual = CycleMetric)

\* The loop has exited as converged after a cycle in which the accelerator
\* replaced the amplitudes, and the residual of the amplitudes it left is
\* above maxResidual.
C27_Witness ==
  /\ pc = "converged"
  /\ cycle >= 2
  /\ largestResidual <= settings.maxResidual
  /\ settings.diisStartResidual > largestResidual
  /\ diis # <<>>
  /\ t_ij # diis[Len(diis)]
  /\ ResidualOfAmplitudesNow > settings.maxResidual

\* C28: the PNO truncation correction is counted once and kept apart: the
\* first component of the returned vector is the sum of ssScaling * ssEnergy
\* + osScaling * osEnergy over the pairs of the close-pair list, without
\* deltaPNO, the third is the sum of their deltaPNO, and the first plus the
\* third is the sum of the pair energies stored in those pairs.
C28_TruncationCountedOnce ==
  pc = "done" /\ ReturnsEnergies =>
    LET n == Len(orbitalPairs)
    IN  /\ energies[1] =
             SeqSum([m \in 1 .. n |->
                       settings.ssScaling * SSEnergy(orbitalPairs[m])
                       + settings.osScaling * OSEnergy(orbitalPairs[m])])
        /\ energies[3] = SeqSum([m \in 1 .. n |-> deltaPNO[orbitalPairs[m]]])
        /\ energies[1] + energies[3] =
             SeqSum([m \in 1 .. n |-> lMP2PairEnergy[orbitalPairs[m]]])

\* An entry point has returned the energies of a list of at least two pairs
\* whose first and third component are both not zero.
C28_Witness ==
  /\ pc = "done"
  /\ ReturnsEnergies
  /\ Len(orbitalPairs) >= 2
  /\ energies[1] # 0
  /\ energies[3] >= 2
  /\ \E p \in Pairs :
       InList(p, orbitalPairs) /\ PairEnergy(p) # 0 /\ deltaPNO[p] # 0

\* ------------------------------------------------------------------------
\* RI_J_IntegralController: the Coulomb metric and its factorizations
\* ------------------------------------------------------------------------
\* The symmetric 2x2 metrics the auxiliary basis can have.
MetricChoices ==
  {<<a, b, b, d>> : a \in {0, 1, 2}, b \in {0 - 1, 0, 2}, d \in {1, 2}}

\* x^T m x > 0 for every vector x that is not zero; for the metrics of
\* MetricChoices the vectors with coordinates in -2 .. 2 decide it.
PositiveDefinite(m) ==
  \A x \in (((0 - 2) .. 2) \X ((0 - 2) .. 2)) \ {<<0, 0>>} :
    m[1] * x[1] * x[1] + (m[2] + m[3]) * x[1] * x[2] + m[4] * x[2] * x[2] > 0

\* Eigen::LLT::info() after the factorization of m: the factorization reads
\* the lower triangle and stops with NumericalIssue at the first pivot that
\* is not positive. The second pivot is m22 - m21^2 / m11.
LLTInfo(m) ==
  IF m[1] <= 0 THEN "NumericalIssue"
  ELSE IF m[4] * m[1] - m[3] * m[3] <= 0 THEN "NumericalIssue"
  ELSE "Success"

\* "Cholesky decomposition failed! Not positive definite!"
CholeskyFailed == "Cholesky decomposition failed! Not positive definite!"

\* *_M after calculate2CenterIntegrals(): computed if _M is null.
Calculate2CenterIntegrals == IF M = NoMetric THEN auxMetric ELSE M

\* The constructor: the members are null or empty after initialize().
IntegralControllerConstructed ==
  /\ auxMetric \in MetricChoices
  /\ M = NoMetric
  /\ lltM = NoLLT
  /\ inverseM = NoMetric
  /\ inverseMSqrt = NoMetric
  /\ lltResult = NoCall
  /\ nLLTCalls = 0
  /\ nFactorizations = 0

\* getMetric()
GetMetric ==
  /\ M' = Calculate2CenterIntegrals
  /\ UNCHANGED <<localMP2, orbitalController, transformation,
                 lrscfController, auxMetric, lltM, inverseM,
                 inverseMSqrt, lltResult, nLLTCalls, nFactorizations>>

\* getInverseM()
GetInverseM ==
  /\ IF inverseM = NoMetric
       THEN /\ M' = Calculate2CenterIntegrals
            /\ inverseM' = [pseudoInverseOf |-> M']
       ELSE UNCHANGED <<M, inverseM>>
  /\ UNCHANGED <<localMP2, orbitalController, transformation,
                 lrscfController, auxMetric, lltM,
                 inverseMSqrt, lltResult, nLLTCalls, nFactorizations>>

\* getInverseMSqrt()
GetInverseMSqrt ==
  /\ IF inverseMSqrt = NoMetric
       THEN /\ M' = Calculate2CenterIntegrals
            /\ inverseMSqrt' = [pseudoInverseSqrtOf |-> M']
       ELSE UNCHANGED <<M, inverseMSqrt>>
  /\ UNCHANGED <<localMP2, orbitalController, transformation,
                 lrscfController, auxMetric, lltM, inverseM,
                 lltResult, nLLTCalls, nFactorizations>>

\* getLLTMetric(): it returns *_lltM or throws.
GetLLTMetric ==
  /\ nLLTCalls < MaxMetricCalls
  /\ nLLTCalls' = nLLTCalls + 1
  /\ IF lltM = NoLLT
       THEN /\ M' = Calculate2CenterIntegrals
            /\ nFactorizations' = nFactorizations + 1
            /\ lltM' = [object |-> nFactorizations + 1, matrix |-> M',
                        info |-> LLTInfo(M')]
            /\ lltResult' =
                 IF LLTInfo(M') # "Success"
                   THEN [call |-> nLLTCalls + 1, kind |-> "thrown",
                         what |-> CholeskyFailed]
                   ELSE [call |-> nLLTCalls + 1, kind |-> "returned",
                         llt |-> lltM']
       ELSE /\ lltResult' = [call |-> nLLTCalls + 1, kind |-> "returned",
                             llt |-> lltM]
            /\ UNCHANGED <<M, lltM, nFactorizations>>
  /\ UNCHANGED <<localMP2, orbitalController, transformation,
                 lrscfController, auxMetric, inverseM,
                 inverseMSqrt>>

\* initialize(), called when a basis the controller depends on has changed:
\* the metric of the auxiliary basis may be another one.
Initialize ==
  /\ auxMetric' \in MetricChoices
  /\ M' = NoMetric
  /\ lltM' = NoLLT
  /\ inverseM' = NoMetric
  /\ inverseMSqrt' = NoMetric
  /\ lltResult' = NoCall
  /\ UNCHANGED <<localMP2, orbitalController, transformation,
                 lrscfController, nLLTCalls, nFactorizations>>

NextIntegrals ==
  \/ GetMetric
  \/ GetInverseM
  \/ GetInverseMSqrt
  \/ GetLLTMetric
  \/ Initialize

InitIntegrals ==
  /\ IntegralControllerConstructed
  /\ NoOrbitalController
  /\ NoTransformation
  /\ NoLRSCFController
  /\ InitWith(OneRun)

SpecIntegrals == InitIntegrals /\ [][NextIntegrals]_vars

\* C29: getLLTMetric never hands out the Cholesky factorization of a metric
\* that is not positive definite: for such a metric every call, the first
\* and the later ones until the controller is re-initialized, throws
\* 'Cholesky decomposition failed'; for a positive definite metric the
\* factorization is computed once and later calls return the same cached
\* object.
C29_FailedFactorizationNeverHandedOut ==
  /\ [](lltResult # NoCall =>
          IF PositiveDefinite(M)
            THEN /\ lltResult.kind = "returned"
                 /\ lltResult.llt = lltM
                 /\ lltResult.llt.matrix = M
                 /\ lltResult.llt.info = "Success"
            ELSE /\ lltResult.kind = "thrown"
                 /\ lltResult.what = CholeskyFailed)
  /\ [][lltResult # NoCall /\ lltResult' # NoCall
          /\ lltResult.kind = "returned" /\ lltResult'.kind = "returned" =>
            lltResult'.llt.object = lltResult.llt.object]_vars

\* ------------------------------------------------------------------------
\* LRSCFController::editReference
\* ------------------------------------------------------------------------
\* A coefficient column that setZero() left: the column of no orbital.
ZeroColumn == [orbital |-> 0 - 1]

\* The coefficient column of orbital i (counted from 0) of the reference the
\* controller was constructed with.
ReferenceColumn(i) == [orbital |-> i]

\* The orbital energies of the reference the controller was constructed with.
ReferenceEnergies == [i \in 1 .. NReference |-> 3 * i - 7]

\* The index lists of the model: up to NReference different orbital indices,
\* counted from 0, in any order.
WhiteLists ==
  {w \in UNION {[1 .. len -> 0 .. (NReference - 1)] : len \in 0 .. NReference} :
     \A a \in 1 .. Len(w), b \in 1 .. Len(w) : a # b => w[a] # w[b]}

\* The index lists passed for the second spin.
BetaWhiteLists == {<<>>, <<0, 1>>, <<2, 0>>}

\* The constructor: the orbitals of the active system, the occupied ones
\* first.
LRSCFControllerConstructed ==
  /\ coefficients =
       [s \in Spins |-> [i \in 1 .. NReference |-> ReferenceColumn(i - 1)]]
  /\ orbitalEnergies = [s \in Spins |-> ReferenceEnergies]
  /\ \E a \in 0 .. NReference, b \in {1, 2} :
       /\ nOcc = [s \in Spins |-> IF s = "alpha" THEN a ELSE b]
       /\ nVirt = [s \in Spins |-> NReference - nOcc[s]]
  /\ lastEdit = NoCall
  /\ nEdits = 0

RECURSIVE EditedCounts(_, _, _)

\* The loop over iMO from position iMO (counted from 1) on; counts holds
\* _nOcc_spin and _nVirt_spin:
\* if (indexWhiteList_spin[iMO] <= _nOcc_spin) _nOcc_spin += 1;
\* else _nVirt_spin += 1;
EditedCounts(whiteList, iMO, counts) ==
  IF iMO > Len(whiteList) THEN counts
  ELSE IF whiteList[iMO] <= counts[1]
    THEN EditedCounts(whiteList, iMO + 1, <<counts[1] + 1, counts[2]>>)
    ELSE EditedCounts(whiteList, iMO + 1, <<counts[1], counts[2] + 1>>)

\* _coefficients_spin after setZero() and the loop: column iMO is the old
\* column indexWhiteList_spin[iMO]; the matrix keeps its columns.
EditedCoefficients(old, whiteList) ==
  [m \in 1 .. Len(old) |->
     IF m <= Len(whiteList) THEN old[whiteList[m] + 1] ELSE ZeroColumn]

\* _orbitalEnergies_spin after resize(indexWhiteList_spin.size()) and the
\* loop.
EditedEnergies(old, whiteList) ==
  [m \in 1 .. Len(whiteList) |-> old[whiteList[m] + 1]]

\* The indices of an index list address columns and energies that exist.
Addressable(whiteList, s) ==
  /\ Len(whiteList) <= Len(coefficients[s])
  /\ \A m \in 1 .. Len(whiteList) :
       whiteList[m] < Len(orbitalEnergies[s])

\* editReference(indexWhiteList)
EditReference(indexWhiteList) ==
  /\ nEdits < MaxEdits
  /\ \A s \in Spins : Addressable(indexWhiteList[s], s)
  /\ coefficients' =
       [s \in Spins |-> EditedCoefficients(coefficients[s], indexWhiteList[s])]
  /\ orbitalEnergies' =
       [s \in Spins |-> EditedEnergies(orbitalEnergies[s], indexWhiteList[s])]
  /\ nOcc' = [s \in Spins |-> EditedCounts(indexWhiteList[s], 1, <<0, 0>>)[1]]
  /\ nVirt' = [s \in Spins |-> EditedCounts(indexWhiteList[s], 1, <<0, 0>>)[2]]
  /\ lastEdit' = [indexWhiteList |-> indexWhiteList,
                  oldCoefficients |-> coefficients,
                  oldOrbitalEnergies |-> orbitalEnergies,
                  oldNOcc |-> nOcc,
                  call |-> nEdits + 1]
  /\ nEdits' = nEdits + 1
  /\ UNCHANGED <<localMP2, orbitalController, transformation,
                 integralController>>

NextLRSCF ==
  \E a \in WhiteLists, b \in BetaWhiteLists :
    EditReference([s \in Spins |-> IF s = "alpha" THEN a ELSE b])

InitLRSCF ==
  /\ LRSCFControllerConstructed
  /\ NoOrbitalController
  /\ NoTransformation
  /\ NoIntegralController
  /\ InitWith(OneRun)

SpecLRSCF == InitLRSCF /\ [][NextLRSCF]_vars

\* C30: after editReference(indexWhiteList), for every spin, the new
\* occupied count is the number of whitelisted indices that were occupied
\* before the call, the new virtual count is the number of whitelisted
\* indices that were virtual, the two add up to the length of the list, and
\* coefficient column m and orbital energy m are those of the old orbital
\* indexWhiteList[m]. Stated for the first call on a reference, whose
\* occupied orbitals are the first oldNOcc ones.
C30_CountsFollowOldOccupation ==
  lastEdit # NoCall /\ lastEdit.call = 1 =>
    \A s \in Spins :
      LET w == lastEdit.indexWhiteList[s]
          wasOccupied == {m \in 1 .. Len(w) : w[m] < lastEdit.oldNOcc[s]}
      IN  /\ nOcc[s] = Cardinality(wasOccupied)
          /\ nVirt[s] = Len(w) - Cardinality(wasOccupied)
          /\ nOcc[s] + nVirt[s] = Len(w)
          /\ Len(orbitalEnergies[s]) = Len(w)
          /\ \A m \in 1 .. Len(w) :
               /\ coefficients[s][m] = lastEdit.oldCoefficients[s][w[m] + 1]
               /\ orbitalEnergies[s][m] =
                    lastEdit.oldOrbitalEnergies[s][w[m] + 1]

\* ------------------------------------------------------------------------
\* OrbitalController::updateOrbitals(fockMatrix, oneIntController)
\* ------------------------------------------------------------------------
\* _canOrthTh(1.0e-7): the eigenvalues of the overlap matrix are counted in
\* units of it.
CanOrthTh == 1

\* The spectra of an overlap matrix: SelfAdjointEigenSolver returns the
\* eigenvalues in ascending order, and the largest eigenvalue of the overlap
\* matrix of normalized basis functions is at least 1, far above the
\* threshold.
OverlapSpectra ==
  {s \in [1 .. NOrb -> {0 - 1, 0, CanOrthTh, 2, 5}] :
     /\ \A i \in 1 .. (NOrb - 1) : s[i] <= s[i + 1]
     /\ s[NOrb] > CanOrthTh}

\* The eigenvalues a diagonalization of the transformed Fock matrix returns,
\* in ascending order; a transformed matrix of fewer rows gets the first of
\* them.
FockSpectra ==
  {e \in [1 .. NOrb -> EigenvalueChoices \ {Infinity}] :
     \A i \in 1 .. (NOrb - 1) : e[i] <= e[i + 1]}

\* The spectra of the second spin.
BetaFockSpectra == {e \in FockSpectra : e[1] = e[NOrb]}

\* A column of the coefficient matrix that setZero() left.
ZeroCoefficients == [x |-> <<>>, eigenvector |-> 0]

\* Mutant of KeptColumns: an eigenvalue equal to the threshold is kept.
RECURSIVE KeptColumnsAtThreshold(_, _, _)
KeptColumnsAtThreshold(s, i, kept) ==
  IF i < 1 THEN kept
  ELSE IF s[i] >= CanOrthTh THEN KeptColumnsAtThreshold(s, i - 1, kept + 1)
  ELSE kept

\* for (int i = n - 1; i >= 0; --i) { if (s(i) > _canOrthTh) { ...;
\* ++_nZero; } else { i = 0; } }: the count _nZero holds after the loop,
\* from position i (counted from 1) downwards.
RECURSIVE KeptColumns(_, _, _)
KeptColumns(s, i, kept) ==
  IF i < 1 THEN kept
  ELSE IF s[i] > CanOrthTh THEN KeptColumns(s, i - 1, kept + 1)
  ELSE kept

\* calculateTransformationX behind its early return: _X is the rightmost
\* columns of U * sigmaInvers^(1/2), named by the eigenvectors of the
\* overlap matrix they are scaled from.
CalculateTransformationX ==
  LET n == Len(overlap)
      kept == KeptColumns(overlap, n, 0)
  IN  [X |-> [j \in 1 .. kept |-> n - kept + j],
       nZero |-> n - kept,
       linearDependent |-> n - kept > 0]

\* eps_spin = Constant(nBasisFunctions, infinity);
\* eps_spin.segment(0, newEigenvalues.size()) = newEigenvalues
PaddedEigenvalues(newEigenvalues) ==
  [i \in 1 .. NOrb |->
     IF i <= Len(newEigenvalues) THEN newEigenvalues[i] ELSE Infinity]

\* c_spin.setZero(); c_spin.leftCols(newCoeffs.cols()) = newCoeffs with
\* newCoeffs = _X * es.eigenvectors()
PaddedCoefficients(x) ==
  [i \in 1 .. NOrb |->
     IF i <= Len(x) THEN [x |-> x, eigenvector |-> i] ELSE ZeroCoefficients]

\* The constructor from coefficients, eigenvalues and core orbital flags.
TransformationControllerConstructed ==
  /\ eigenvalues = [s \in Spins |-> [i \in 1 .. NOrb |-> 0]]
  /\ isCoreOrbital = [s \in Spins |-> [i \in 1 .. NOrb |-> 0]]
  /\ lastCall = NoCall
  /\ nCalls = 0
  /\ overlap \in OverlapSpectra
  /\ X = <<>>
  /\ nZero = 0
  /\ linearDependent = FALSE
  /\ orbitalCoefficients =
       [s \in Spins |-> [i \in 1 .. NOrb |-> ZeroCoefficients]]
  /\ firstIteration = TRUE
  /\ nUpdates = 0

\* updateOrbitals(fockMatrix, oneIntController) of a controller without a
\* custom overlap matrix whose Fock matrix is not in an orthogonal basis;
\* fockSpectrum holds, per spin, the eigenvalues the solver finds.
UpdateOrbitals(fockSpectrum) ==
  /\ nUpdates < MaxUpdates
  /\ LET t == IF Len(X) > 0
                THEN [X |-> X, nZero |-> nZero,
                      linearDependent |-> linearDependent]
                ELSE CalculateTransformationX
         newEigenvalues ==
           [s \in Spins |-> SubSeq(fockSpectrum[s], 1, Len(t.X))]
     IN  /\ X' = t.X
         /\ nZero' = t.nZero
         /\ linearDependent' = t.linearDependent
         /\ eigenvalues' =
              [s \in Spins |-> PaddedEigenvalues(newEigenvalues[s])]
         /\ orbitalCoefficients' = [s \in Spins |-> PaddedCoefficients(t.X)]
         /\ lastCall' = [op |-> "updateOrbitals",
                         newEigenvalues |-> newEigenvalues]
  /\ firstIteration' = FALSE
  /\ nUpdates' = nUpdates + 1
  /\ UNCHANGED <<localMP2, isCoreOrbital, nCalls, overlap,
                 integralController, lrscfController>>

\* notify(): the basis has changed, and with it the overlap matrix.
Notify ==
  /\ X' = <<>>
  /\ firstIteration' = TRUE
  /\ overlap' \in OverlapSpectra
  /\ lastCall' = [op |-> "notify"]
  /\ UNCHANGED <<localMP2, eigenvalues, isCoreOrbital, nCalls, nZero,
                 linearDependent, orbitalCoefficients, nUpdates,
                 integralController, lrscfController>>

NextUpdate ==
  \/ \E a \in FockSpectra, b \in BetaFockSpectra :
       UpdateOrbitals([s \in Spins |-> IF s = "alpha" THEN a ELSE b])
  \/ Notify

InitUpdate ==
  /\ TransformationControllerConstructed
  /\ NoIntegralController
  /\ NoLRSCFController
  /\ InitWith(OneRun)

SpecUpdate == InitUpdate /\ [][NextUpdate]_vars

====
